---- MODULE Spec2Model ----
(***************************************************************************)
(* opencode-helix: the interactive dialog subsystem (src/tui/app.rs) and   *)
(* the part of the outer program that drives it (src/main.rs).             *)
(*                                                                         *)
(* A Rust String is modelled as the sequence of its UTF-8 bytes; byte      *)
(* offsets are 0-based as in the source, so &t[a..b] is SubSeq(t, a+1, b). *)
(***************************************************************************)
EXTENDS Integers, Sequences, FiniteSets, TLC

(***************************************************************************)
(* Bounds of the model.                                                    *)
(***************************************************************************)
\* The buffer grows (typing, accepting a completion) only while it holds fewer
\* than MaxLen bytes.
MaxLen == 3
\* The buffer shrinks (Backspace, Delete) only while it holds at most MaxEdit bytes.
MaxEdit == 4
\* The selection filter holds at most MaxFilter bytes.
MaxFilter == 2
\* The texts the helpers are called with on their own hold at most MaxChars
\* characters.
MaxChars == 3
MaxWidth == 3
MaxPartial == 3
MaxTokens == 2

(***************************************************************************)
(* Bytes and characters.                                                   *)
(***************************************************************************)
NL == 10
CR == 13
SP == 32
AT == 64

Min(a, b) == IF a <= b THEN a ELSE b
SatSub(a, b) == IF a > b THEN a - b ELSE 0

\* A UTF-8 continuation byte (10xxxxxx).
IsCont(b) == b >= 128 /\ b < 192

\* Number of bytes of the character whose first byte is b.
Utf8Len(b) == IF b < 128 THEN 1 ELSE IF b < 224 THEN 2 ELSE IF b < 240 THEN 3 ELSE 4

\* str::is_char_boundary
is_char_boundary(t, p) ==
    \/ p = 0
    \/ p = Len(t)
    \/ (p > 0 /\ p < Len(t) /\ ~IsCont(t[p + 1]))

\* &t[a..b]
Slice(t, a, b) == SubSeq(t, a + 1, b)

\* str::char_indices: the byte offsets at which the characters of t start.
RECURSIVE CharIndicesFrom(_, _)
CharIndicesFrom(t, i) ==
    IF i >= Len(t) THEN <<>>
    ELSE <<i>> \o CharIndicesFrom(t, i + Utf8Len(t[i + 1]))

char_indices(t) == CharIndicesFrom(t, 0)

\* str::chars().count()
CharCount(t) == Len(char_indices(t))

\* t[from..].find(b) + from: offset of the first byte b at or after `from`, or -1.
FindFrom(t, from, b) ==
    LET hits == {i \in from .. Len(t) - 1 : t[i + 1] = b}
    IN  IF hits = {} THEN -1 ELSE CHOOSE i \in hits : \A j \in hits : i <= j

\* t[..upto].rfind(b): offset of the last byte b before `upto`, or -1.
RFindBefore(t, upto, b) ==
    LET hits == {i \in 0 .. upto - 1 : t[i + 1] = b}
    IN  IF hits = {} THEN -1 ELSE CHOOSE i \in hits : \A j \in hits : i >= j

\* char::to_lowercase on the bytes of the model's alphabet (ASCII letters fold,
\* every other byte of the alphabet is its own lower case).
ToLowerByte(b) == IF b >= 65 /\ b <= 90 THEN b + 32 ELSE b

\* str::to_lowercase
to_lowercase(t) == [i \in 1 .. Len(t) |-> ToLowerByte(t[i])]

\* str::starts_with
starts_with(t, prefix) ==
    Len(prefix) <= Len(t) /\ SubSeq(t, 1, Len(prefix)) = prefix

\* str::contains(&str)
contains(t, needle) ==
    \E i \in 0 .. Len(t) - Len(needle) : Slice(t, i, i + Len(needle)) = needle

\* str::split('\n')
RECURSIVE SplitNL(_)
SplitNL(t) ==
    LET p == FindFrom(t, 0, NL)
    IN  IF p < 0 THEN <<t>>
        ELSE <<Slice(t, 0, p)>> \o SplitNL(Slice(t, p + 1, Len(t)))

\* str::lines(): split at '\n', no final empty line, a trailing '\r' stripped.
StripCR(l) == IF Len(l) > 0 /\ l[Len(l)] = CR THEN Slice(l, 0, Len(l) - 1) ELSE l

lines(t) ==
    LET pieces == SplitNL(t)
        kept   == IF pieces[Len(pieces)] = <<>>
                  THEN SubSeq(pieces, 1, Len(pieces) - 1)
                  ELSE pieces
    IN  [i \in 1 .. Len(kept) |-> StripCR(kept[i])]

(***************************************************************************)
(* Pure helpers of src/tui/app.rs.                                         *)
(***************************************************************************)
NoWord == [some |-> FALSE, at_pos |-> 0, partial |-> <<>>]

\* find_at_word(input, cursor_pos); the caller guarantees a char boundary
\* (the slice &input[..cursor_pos] panics otherwise).
AtWordFrom(inp, cur, at_pos) ==
    IF at_pos < 0 THEN NoWord
    ELSE IF \E i \in at_pos + 1 .. cur : inp[i] = SP THEN NoWord
         ELSE [some |-> TRUE, at_pos |-> at_pos, partial |-> Slice(inp, at_pos, cur)]

\* Faulty variant of find_at_word: the first '@' before the cursor, not the last.
find_at_word_first_at(inp, cur) ==
    AtWordFrom(inp, cur, FindFrom(Slice(inp, 0, cur), 0, AT))

find_at_word(inp, cur) == AtWordFrom(inp, cur, RFindBefore(inp, cur, AT))

\* Faulty variant of filter_placeholders: the comparison is case-sensitive.
filter_placeholders_case_sensitive(partial, names) ==
    SelectSeq(names, LAMBDA p : starts_with(p, partial))

\* filter_placeholders(partial, placeholders)
filter_placeholders(partial, names) ==
    SelectSeq(names, LAMBDA p : starts_with(to_lowercase(p), to_lowercase(partial)))

\* cursor_to_line_col(text, pos): the loop over char_indices.
RECURSIVE CtlcLoop(_, _, _, _, _)
CtlcLoop(text, pos, idx, line, col) ==
    IF idx = <<>> \/ Head(idx) >= pos THEN <<line, col>>
    ELSE IF text[Head(idx) + 1] = NL
         THEN CtlcLoop(text, pos, Tail(idx), line + 1, 0)
         ELSE CtlcLoop(text, pos, Tail(idx), line, col + 1)

cursor_to_line_col(text, pos) == CtlcLoop(text, pos, char_indices(text), 0, 0)

\* line_col_to_cursor(text, target_line, target_col): the loop over char_indices.
RECURSIVE LctcLoop(_, _, _, _, _, _)
LctcLoop(text, target_line, target_col, idx, current_line, line_start) ==
    IF idx = <<>>
    THEN IF current_line = target_line
         THEN line_start + Min(target_col, Len(text) - line_start)
         ELSE Len(text)
    ELSE LET i == Head(idx)
         IN  IF current_line = target_line
             THEN LET f        == FindFrom(text, i, NL)
                      line_end == IF f < 0 THEN Len(text) ELSE f
                  IN  i + Min(target_col, line_end - i)
             ELSE IF text[i + 1] = NL
                  THEN LctcLoop(text, target_line, target_col, Tail(idx),
                                current_line + 1, i + 1)
                  ELSE LctcLoop(text, target_line, target_col, Tail(idx),
                                current_line, line_start)

line_col_to_cursor(text, target_line, target_col) ==
    LctcLoop(text, target_line, target_col, char_indices(text), 0, 0)

\* get_line_length(text, line_idx)
get_line_length(text, line_idx) ==
    LET ls == lines(text)
    IN  IF line_idx < Len(ls) THEN Len(ls[line_idx + 1]) ELSE 0

\* count_lines(text)
count_lines(text) ==
    IF text = <<>> THEN 1
    ELSE Len(lines(text)) + (IF text[Len(text)] = NL THEN 1 ELSE 0)

\* One WrappedLine.
WrappedLine(txt, logical_line, is_first, start_pos) ==
    [text |-> txt, logical_line |-> logical_line, is_first |-> is_first,
     start_pos |-> start_pos]

\* The break point of wrap_text's inner loop.
BreakAt(remaining, effective_width) ==
    IF CharCount(remaining) <= effective_width THEN Len(remaining)
    ELSE char_indices(remaining)[effective_width + 1]

\* An inner loop that stops after its first row.
WrapChunks_first_row_only(remaining, effective_width, logical_line, is_first, line_byte_offset) ==
    IF remaining = <<>> THEN <<>>
    ELSE <<WrappedLine(Slice(remaining, 0, BreakAt(remaining, effective_width)),
                       logical_line, is_first, line_byte_offset)>>

\* The inner while loop of wrap_text over one logical line.
RECURSIVE WrapChunks(_, _, _, _, _)
WrapChunks(remaining, effective_width, logical_line, is_first, line_byte_offset) ==
    IF remaining = <<>> THEN <<>>
    ELSE LET break_at == BreakAt(remaining, effective_width)
         IN  <<WrappedLine(Slice(remaining, 0, break_at), logical_line, is_first,
                           line_byte_offset)>>
             \o WrapChunks(Slice(remaining, break_at, Len(remaining)), effective_width,
                           logical_line, FALSE, line_byte_offset + break_at)

\* The outer for loop of wrap_text over text.split('\n').
RECURSIVE WrapLines(_, _, _, _, _)
WrapLines(pieces, logical_line, byte_offset, width, prefix_width) ==
    IF pieces = <<>> THEN <<>>
    ELSE LET line == Head(pieces)
             effective_width == SatSub(width, prefix_width)
             rows == IF line = <<>>
                     THEN <<WrappedLine(<<>>, logical_line, TRUE, byte_offset)>>
                     ELSE IF effective_width = 0
                          THEN <<WrappedLine(line, logical_line, TRUE, byte_offset)>>
                          ELSE WrapChunks(line, effective_width, logical_line, TRUE,
                                          byte_offset)
         IN  rows \o WrapLines(Tail(pieces), logical_line + 1,
                               byte_offset + Len(line) + 1, width, prefix_width)

\* The end of wrap_text: a buffer that produced no row gets one empty row.
OrEmptyRow(wrapped) ==
    IF wrapped = <<>> THEN <<WrappedLine(<<>>, 0, TRUE, 0)>> ELSE wrapped

\* wrap_text(text, width, prefix_width)
wrap_text(text, width, prefix_width) ==
    OrEmptyRow(WrapLines(SplitNL(text), 0, 0, width, prefix_width))

\* The loop of cursor_to_visual_pos over the wrapped lines: the first row that
\* holds the cursor, else the last row and the length of its text.
VisualPosIn(wrapped, cur) ==
    LET hits == {i \in 1 .. Len(wrapped) :
                    /\ cur >= wrapped[i].start_pos
                    /\ cur <= wrapped[i].start_pos + Len(wrapped[i].text)}
    IN  IF hits # {}
        THEN LET i == CHOOSE h \in hits : \A j \in hits : h <= j
             IN  <<i - 1, cur - wrapped[i].start_pos>>
        ELSE <<Len(wrapped) - 1, Len(wrapped[Len(wrapped)].text)>>

\* cursor_to_visual_pos(text, cursor_pos, width, prefix_width) = <<row, col>>
cursor_to_visual_pos(text, cur, width, prefix_width) ==
    VisualPosIn(wrap_text(text, width, prefix_width), cur)

\* count_visual_lines(text, width, prefix_width)
count_visual_lines(text, width, prefix_width) == Len(wrap_text(text, width, prefix_width))

\* The two comparisons of update_scroll_for_cursor.
ScrollToRow(visual_row, scroll, visible_lines) ==
    IF visual_row < scroll THEN visual_row
    ELSE IF visual_row >= scroll + visible_lines
         THEN visual_row - visible_lines + 1
         ELSE scroll

\* update_scroll_for_cursor: the new value of *scroll_offset.
update_scroll_for_cursor(text, cur, scroll, visible_lines, text_width, prefix_width) ==
    ScrollToRow(cursor_to_visual_pos(text, cur, text_width, prefix_width)[1],
                scroll, visible_lines)

(***************************************************************************)
(* Inputs of a run.                                                        *)
(***************************************************************************)
\* Width in columns of the terminal area the frame is drawn into.
AreaWidth == 80
\* Height in rows of that area.
AreaHeight == 24

\* The placeholder names "@this" and "@buffer" (Context::expand).
AtThis   == <<64, 116, 104, 105, 115>>
AtBuffer == <<64, 98, 117, 102, 102, 101, 114>>

\* "@path" and "@selection", the other two names of test_filter_placeholders.
AtPath == <<64, 112, 97, 116, 104>>
AtSelection == <<64, 115, 101, 108, 101, 99, 116, 105, 111, 110>>

\* What run_ask gets as placeholder names: none (no context, or a context
\* that lists none), or the names the context lists.
PlaceholderLists ==
    {<<>>, <<AtThis, AtBuffer>>, <<AtThis, AtBuffer, AtPath, AtSelection>>}

\* Initial texts of the input dialog: "", "é", "tt\nt", "é\nt", and five newlines.
InitialTexts ==
    { <<>>, <<195, 169>>, <<116, 116, 10, 116>>, <<195, 169, 10, 116>>,
      <<10, 10, 10, 10, 10>> }

\* Printable characters the user types in the input dialog: '@', 't', 'T', ' '.
Typable == {64, 116, 84, 32}

(***************************************************************************)
(* Key events, as read_key / parse_key produce them.                       *)
(***************************************************************************)
Key(code, ch, mods) == [code |-> code, ch |-> ch, mods |-> mods]
NoKey == Key("None", 0, {})

SpecialCodes ==
    {"Enter", "Esc", "Tab", "BackTab", "Backspace", "Delete",
     "Left", "Right", "Up", "Down", "Home", "End"}

\* parse_key gives BackTab the SHIFT modifier and every other special key none.
SpecialKeys ==
    {Key(c, 0, IF c = "BackTab" THEN {"SHIFT"} ELSE {}) : c \in SpecialCodes}

\* Control+C, Control+N and Control+P (bytes 0x03, 0x0e, 0x10).
ControlKeys == {Key("Char", c, {"CONTROL"}) : c \in {99, 110, 112}}

\* Alt+t (bytes 0x1b 0x74).
AltKeys == {Key("Char", 116, {"ALT"})}

AskKeys == {Key("Char", c, {}) : c \in Typable} \cup SpecialKeys \cup ControlKeys \cup AltKeys

IsCtrl(k) == "CONTROL" \in k.mods
IsCtrlOrAlt(k) == k.mods \cap {"CONTROL", "ALT"} # {}

(***************************************************************************)
(* State.                                                                  *)
(***************************************************************************)
VARIABLES
    pc,                     \* position of the program
    cmd,                    \* "ask" or "select" (cli.command)
    key,                    \* the key event read in this loop iteration
    input,                  \* run_ask: the buffer
    cursor_pos,             \* run_ask: byte offset of the cursor
    focus,                  \* run_ask: 0 = input, 1 = Send, 2 = Cancel
    scroll_offset,          \* run_ask: first visible visual row
    last_text_width,        \* run_ask: text width of the last frame
    autocomplete_active,    \* run_ask
    autocomplete_selected,  \* run_ask
    placeholder_names,      \* run_ask: names offered by the popup
    items,                  \* run_select: the item list
    filter,                 \* run_select: the filter string
    selected,               \* run_select: index into the filtered view
    result,                 \* what the dialog returned
    raw_mode,               \* terminal: raw mode engaged
    alt_screen,             \* terminal: alternate screen entered
    mouse_capture,          \* terminal: mouse reporting enabled
    tty_log,                \* terminal: mode changes in the order they were made
    app_alive,              \* an App value exists (its Drop is still to run)
    drawn,                  \* the dialog has rendered a frame
    polled,                 \* the dialog has called read_key
    posted,                 \* texts sent to the server
    args,                   \* a helper called on its own: its arguments
    ret,                    \* a helper called on its own: what it returned
    last_edit,              \* history: the buffer and cursor before the character
                            \* the last key inserted, and whether the key after
                            \* it was Backspace
    io_failed               \* the terminal operation that failed in the current
                            \* loop iteration: "none", "draw", "poll" or "read"

askVars  == <<input, cursor_pos, focus, scroll_offset, last_text_width,
              autocomplete_active, autocomplete_selected, placeholder_names>>
selVars  == <<items, filter, selected>>
termVars == <<raw_mode, alt_screen, mouse_capture, tty_log>>
vars     == <<pc, cmd, key, askVars, selVars, result, termVars, app_alive,
              drawn, polled, posted, args, ret, last_edit, io_failed>>

NoResult == [kind |-> "None", value |-> <<>>]
Submit(v) == [kind |-> "Submit", value |-> v]
Cancel == [kind |-> "Cancel", value |-> <<>>]
Err == [kind |-> "Err", value |-> <<>>]

(***************************************************************************)
(* Program constants of run_ask.                                           *)
(***************************************************************************)
input_visible_lines == 5
InitialTextWidth == 60
\* theme.prompt.chars().count() for the theme App::new installs ("λ ").
PromptLen == 2

\* Block::inner of a block with Borders::ALL.
InnerWidth(w) == SatSub(w, 2)

\* The draw closure of run_ask: text_width of the frame.
AskTextWidth ==
    LET dialog_width == IF placeholder_names # <<>>
                        THEN Min(AreaWidth, 80) ELSE Min(AreaWidth, 70)
    IN  SatSub(InnerWidth(dialog_width), 2)

(***************************************************************************)
(* Terminal acquisition and release.                                       *)
(***************************************************************************)
\* App::restore: the mode changes it makes, in order.
RestoreLog == <<"raw_off", "mouse_off", "alt_off", "show_cursor">>

\* App::restore
restore ==
    /\ raw_mode' = FALSE
    /\ mouse_capture' = FALSE
    /\ alt_screen' = FALSE
    /\ tty_log' = tty_log \o RestoreLog

\* Faulty variant of drop_app: a Drop that does not call restore.
drop_app_without_restore ==
    /\ app_alive' = FALSE
    /\ UNCHANGED termVars

\* impl Drop for App
drop_app ==
    /\ restore
    /\ app_alive' = FALSE

(***************************************************************************)
(* run_ask: the key handlers.  Each arm yields the locals after the arm;   *)
(* ret tells how the loop iteration ends: "continue", "submit", "cancel",  *)
(* or "panic" (a String operation off a char boundary).                    *)
(***************************************************************************)
AskLocals ==
    [input |-> input, cursor_pos |-> cursor_pos, focus |-> focus,
     scroll_offset |-> scroll_offset,
     autocomplete_active |-> autocomplete_active,
     autocomplete_selected |-> autocomplete_selected,
     ret |-> "continue"]

\* current_completions, as computed after the draw (app.rs 855-860).
CompletionsOf(w) ==
    IF w.some THEN filter_placeholders(w.partial, placeholder_names) ELSE <<>>

current_completions == CompletionsOf(find_at_word(input, cursor_pos))

\* The scroll update every editing arm ends with.
ScrollFor(text, cur) ==
    update_scroll_for_cursor(text, cur, scroll_offset, input_visible_lines,
                             last_text_width, PromptLen)

\* An arm that moves the cursor to cur and then updates the scroll offset.
MovedTo(cur) ==
    [AskLocals EXCEPT !.cursor_pos = cur, !.scroll_offset = ScrollFor(input, cur)]

\* An arm that leaves the buffer text with the cursor at cur and then updates
\* the scroll offset.
EditedTo(text, cur) ==
    [AskLocals EXCEPT !.input = text, !.cursor_pos = cur,
                      !.scroll_offset = ScrollFor(text, cur)]

\* Popup: Down / Control+N.
AcNext ==
    [AskLocals EXCEPT !.autocomplete_selected =
        (autocomplete_selected + 1) % Len(current_completions)]

\* Faulty variant of AcPrev: the highlight moves forward.
AcPrev_forward ==
    [AskLocals EXCEPT !.autocomplete_selected =
        (autocomplete_selected + 1) % Len(current_completions)]

\* Popup: Up / Control+P.
AcPrev ==
    [AskLocals EXCEPT !.autocomplete_selected =
        IF autocomplete_selected = 0 THEN Len(current_completions) - 1
        ELSE autocomplete_selected - 1]

\* Faulty variant of Accepted: no space after the completion.
Accepted_without_space(at_pos, completion) ==
    [AskLocals EXCEPT
        !.input = Slice(input, 0, at_pos) \o completion
                  \o Slice(input, cursor_pos, Len(input)),
        !.cursor_pos = at_pos + Len(completion),
        !.autocomplete_active = FALSE,
        !.autocomplete_selected = 0]

\* Popup: Tab / Enter accept the highlighted completion.
\* replace_range(at_pos..cursor_pos, completion), insert(cursor_pos, ' ').
Accepted(at_pos, completion) ==
    [AskLocals EXCEPT
        !.input = Slice(input, 0, at_pos) \o completion \o <<SP>>
                  \o Slice(input, cursor_pos, Len(input)),
        !.cursor_pos = at_pos + Len(completion) + 1,
        !.autocomplete_active = FALSE,
        !.autocomplete_selected = 0]

AcceptAt(w, completions) ==
    IF w.some THEN Accepted(w.at_pos, completions[autocomplete_selected + 1])
    ELSE AskLocals

AcAccept == AcceptAt(find_at_word(input, cursor_pos), current_completions)

\* Popup: Esc dismisses the popup.
AcDismiss ==
    [AskLocals EXCEPT !.autocomplete_active = FALSE, !.autocomplete_selected = 0]

\* Faulty variant of OnTab: the cycle runs backwards.
OnTab_backwards == [AskLocals EXCEPT !.focus = (focus + 2) % 3]

\* KeyCode::Tab if !autocomplete_active
OnTab == [AskLocals EXCEPT !.focus = (focus + 1) % 3]

\* KeyCode::BackTab
OnBackTab == [AskLocals EXCEPT !.focus = IF focus = 0 THEN 2 ELSE focus - 1]

\* Faulty variant of OnEnter: an empty buffer is submitted too.
OnEnter_submits_empty ==
    IF focus \in {0, 1} THEN [AskLocals EXCEPT !.ret = "submit"]
    ELSE [AskLocals EXCEPT !.ret = "cancel"]

\* KeyCode::Enter
OnEnter ==
    IF focus \in {0, 1}
    THEN IF input # <<>> THEN [AskLocals EXCEPT !.ret = "submit"] ELSE AskLocals
    ELSE IF focus = 2 THEN [AskLocals EXCEPT !.ret = "cancel"] ELSE AskLocals

\* Faulty variant of OnCancel: the key is ignored.
OnCancel_ignored == AskLocals

\* KeyCode::Esc, and KeyCode::Char('c') with CONTROL
OnCancel == [AskLocals EXCEPT !.ret = "cancel"]

\* KeyCode::Up if focus == 0 && !autocomplete_active
OnUp ==
    LET lc == cursor_to_line_col(input, cursor_pos)
    IN  IF lc[1] > 0
        THEN MovedTo(line_col_to_cursor(input, lc[1] - 1, lc[2]))
        ELSE AskLocals

\* KeyCode::Down if focus == 0 && !autocomplete_active
OnDown ==
    LET lc == cursor_to_line_col(input, cursor_pos)
        total_lines == count_lines(input)
    IN  IF lc[1] < total_lines - 1
        THEN MovedTo(line_col_to_cursor(input, lc[1] + 1, lc[2]))
        ELSE AskLocals

\* KeyCode::Char(c) if focus == 0 && no CONTROL/ALT: String::insert, cursor_pos += 1
OnChar(c) ==
    IF ~is_char_boundary(input, cursor_pos) THEN [AskLocals EXCEPT !.ret = "panic"]
    ELSE EditedTo(Slice(input, 0, cursor_pos) \o <<c>>
                      \o Slice(input, cursor_pos, Len(input)),
                  cursor_pos + 1)

\* String::remove(idx) = the string without the character at idx; it panics
\* when idx is not a char boundary or is the end of the string.
RemovePanics(t, idx) == idx >= Len(t) \/ ~is_char_boundary(t, idx)
Removed(t, idx) ==
    Slice(t, 0, idx) \o Slice(t, idx + Utf8Len(t[idx + 1]), Len(t))

\* A Backspace that removes the character under the cursor instead of the
\* one before it.
OnBackspace_removes_forward ==
    IF cursor_pos < Len(input)
    THEN IF RemovePanics(input, cursor_pos)
         THEN [AskLocals EXCEPT !.ret = "panic"]
         ELSE [AskLocals EXCEPT !.input = Removed(input, cursor_pos)]
    ELSE AskLocals

\* KeyCode::Backspace if focus == 0
OnBackspace ==
    IF cursor_pos > 0
    THEN IF RemovePanics(input, cursor_pos - 1)
         THEN [AskLocals EXCEPT !.ret = "panic"]
         ELSE EditedTo(Removed(input, cursor_pos - 1), cursor_pos - 1)
    ELSE AskLocals

\* KeyCode::Delete if focus == 0
OnDelete ==
    IF cursor_pos < Len(input)
    THEN IF RemovePanics(input, cursor_pos)
         THEN [AskLocals EXCEPT !.ret = "panic"]
         ELSE [AskLocals EXCEPT !.input = Removed(input, cursor_pos)]
    ELSE AskLocals

\* KeyCode::Left if focus == 0
OnLeft ==
    IF cursor_pos > 0
    THEN MovedTo(cursor_pos - 1)
    ELSE AskLocals

\* KeyCode::Right if focus == 0
OnRight ==
    IF cursor_pos < Len(input)
    THEN MovedTo(cursor_pos + 1)
    ELSE AskLocals

\* KeyCode::Home if focus == 0
OnHome ==
    LET cursor_line == cursor_to_line_col(input, cursor_pos)[1]
    IN  [AskLocals EXCEPT !.cursor_pos = line_col_to_cursor(input, cursor_line, 0)]

\* KeyCode::End if focus == 0
OnEnd ==
    LET cursor_line == cursor_to_line_col(input, cursor_pos)[1]
        line_len    == get_line_length(input, cursor_line)
    IN  [AskLocals EXCEPT
            !.cursor_pos = line_col_to_cursor(input, cursor_line, line_len)]

\* KeyCode::Left if focus > 0
OnButtonLeft == [AskLocals EXCEPT !.focus = focus - 1]

\* KeyCode::Right if focus > 0 && focus < 2
OnButtonRight == [AskLocals EXCEPT !.focus = focus + 1]

\* The popup intercepts the key (the first match of run_ask's key handling).
PopupIntercepts(k) ==
    /\ autocomplete_active
    /\ current_completions # <<>>
    /\ \/ k.code \in {"Down", "Up", "Tab", "Enter", "Esc"}
       \/ k.code = "Char" /\ k.ch \in {110, 112} /\ IsCtrl(k)

\* The popup's match arms, in source order.
HandlePopupKey(k) ==
    IF k.code = "Down" \/ (k.code = "Char" /\ k.ch = 110 /\ IsCtrl(k)) THEN AcNext
    ELSE IF k.code = "Up" \/ (k.code = "Char" /\ k.ch = 112 /\ IsCtrl(k)) THEN AcPrev
    ELSE IF k.code \in {"Tab", "Enter"} THEN AcAccept
    ELSE AcDismiss

\* The second match of run_ask's key handling, arms in source order.
HandleEditKey(k) ==
    IF k.code = "Tab" /\ ~autocomplete_active THEN OnTab
    ELSE IF k.code = "BackTab" THEN OnBackTab
    ELSE IF k.code = "Enter" THEN OnEnter
    ELSE IF k.code = "Esc" THEN OnCancel
    ELSE IF k.code = "Char" /\ k.ch = 99 /\ IsCtrl(k) THEN OnCancel
    ELSE IF k.code = "Up" /\ focus = 0 /\ ~autocomplete_active THEN OnUp
    ELSE IF k.code = "Down" /\ focus = 0 /\ ~autocomplete_active THEN OnDown
    ELSE IF k.code = "Char" /\ focus = 0 /\ ~IsCtrlOrAlt(k) THEN OnChar(k.ch)
    ELSE IF k.code = "Backspace" /\ focus = 0 THEN OnBackspace
    ELSE IF k.code = "Delete" /\ focus = 0 THEN OnDelete
    ELSE IF k.code = "Left" /\ focus = 0 THEN OnLeft
    ELSE IF k.code = "Right" /\ focus = 0 THEN OnRight
    ELSE IF k.code = "Home" /\ focus = 0 THEN OnHome
    ELSE IF k.code = "End" /\ focus = 0 THEN OnEnd
    ELSE IF k.code = "Left" /\ focus > 0 THEN OnButtonLeft
    ELSE IF k.code = "Right" /\ focus > 0 /\ focus < 2 THEN OnButtonRight
    ELSE AskLocals

\* run_ask's handling of one key event.
HandleAskKey(k) ==
    IF PopupIntercepts(k) THEN HandlePopupKey(k) ELSE HandleEditKey(k)

(***************************************************************************)
(* run_select: inputs, filter and key handlers.                            *)
(***************************************************************************)
\* SelectItem "explain" / "Explain the selected code" / "Explain how this code works: @this"
Item_explain ==
    [name |-> <<101, 120, 112, 108, 97, 105, 110>>,
     description |-> <<69, 120, 112, 108, 97, 105, 110, 32, 116, 104, 101, 32, 115, 101, 108, 101, 99, 116, 101, 100, 32, 99, 111, 100, 101>>,
     value |-> <<69, 120, 112, 108, 97, 105, 110, 32, 104, 111, 119, 32, 116, 104, 105, 115, 32, 99, 111, 100, 101, 32, 119, 111, 114, 107, 115, 58, 32, 64, 116, 104, 105, 115>>]

\* SelectItem "review" / "Code review" / "Review this code and suggest improvements: @this"
Item_review ==
    [name |-> <<114, 101, 118, 105, 101, 119>>,
     description |-> <<67, 111, 100, 101, 32, 114, 101, 118, 105, 101, 119>>,
     value |-> <<82, 101, 118, 105, 101, 119, 32, 116, 104, 105, 115, 32, 99, 111, 100, 101, 32, 97, 110, 100, 32, 115, 117, 103, 103, 101, 115, 116, 32, 105, 109, 112, 114, 111, 118, 101, 109, 101, 110, 116, 115, 58, 32, 64, 116, 104, 105, 115>>]

\* SelectItem "fix" / "Fix code issues" / "Fix the issue in this code: @this"
Item_fix ==
    [name |-> <<102, 105, 120>>,
     description |-> <<70, 105, 120, 32, 99, 111, 100, 101, 32, 105, 115, 115, 117, 101, 115>>,
     value |-> <<70, 105, 120, 32, 116, 104, 101, 32, 105, 115, 115, 117, 101, 32, 105, 110, 32, 116, 104, 105, 115, 32, 99, 111, 100, 101, 58, 32, 64, 116, 104, 105, 115>>]

\* The item of a server command named by the letter c: "/c", its description
\* and its template.
Item_command(c) == [name |-> <<47, c>>, description |-> <<99, 109, 100>>, value |-> <<c>>]

\* Server commands "a", "b", ... in the long menu.
MaxCommands == 12

\* Item lists run_select is called with: none, the first three prompts, or
\* these followed by the server's commands.
ItemLists ==
    {<<>>, <<Item_explain, Item_review, Item_fix>>,
     <<Item_explain, Item_review, Item_fix>> \o [i \in 1 .. MaxCommands |-> Item_command(96 + i)]}

\* Characters the user types into the filter: 'r', 'x', 'E'.
FilterTypable == {114, 120, 69}

\* 'k' and 'j' (navigation), typed characters, special and modified keys.
SelectKeys ==
    {Key("Char", c, {}) : c \in FilterTypable \cup {107, 106}}
    \cup SpecialKeys \cup ControlKeys \cup AltKeys

\* Faulty variant of Matches: the comparison is case-sensitive.
Matches_case_sensitive(item, f) ==
    IF f = <<>> THEN TRUE
    ELSE contains(item.name, f) \/ contains(item.description, f)

\* The filter closure of run_select applied to one item.
Matches(item, f) ==
    IF f = <<>> THEN TRUE
    ELSE \/ contains(to_lowercase(item.name), to_lowercase(f))
         \/ contains(to_lowercase(item.description), to_lowercase(f))

\* filtered: the items matching the filter, in their original order.
filtered == SelectSeq(items, LAMBDA item : Matches(item, filter))

\* Faulty variant of ClampSelected: the selection is left as it is.
ClampSelected_off(sel, n) == sel

\* Faulty variant of ClampSelected: every frame puts the selection on the first row.
ClampSelected_to_top(sel, n) == 0

\* Clamp selection.
ClampSelected(sel, n) == IF sel >= n THEN SatSub(n, 1) ELSE sel

SelLocals == [filter |-> filter, selected |-> selected, ret |-> "continue", value |-> <<>>]

\* Faulty variant of SelOnEnter: the index is taken in the unfiltered list.
SelOnEnter_unfiltered ==
    IF selected < Len(filtered)
    THEN [SelLocals EXCEPT !.ret = "submit", !.value = items[selected + 1].value]
    ELSE SelLocals

\* KeyCode::Enter
SelOnEnter ==
    IF selected < Len(filtered)
    THEN [SelLocals EXCEPT !.ret = "submit", !.value = filtered[selected + 1].value]
    ELSE SelLocals

\* KeyCode::Esc, and KeyCode::Char('c') with CONTROL
SelOnCancel == [SelLocals EXCEPT !.ret = "cancel"]

\* KeyCode::Up | KeyCode::Char('k'), and KeyCode::Char('p') with CONTROL
SelOnUp ==
    IF selected > 0 THEN [SelLocals EXCEPT !.selected = selected - 1] ELSE SelLocals

\* Faulty variant of SelOnDown: the selection wraps around at the end.
SelOnDown_wraps ==
    IF selected < SatSub(Len(filtered), 1)
    THEN [SelLocals EXCEPT !.selected = selected + 1]
    ELSE [SelLocals EXCEPT !.selected = 0]

\* KeyCode::Down | KeyCode::Char('j'), and KeyCode::Char('n') with CONTROL
SelOnDown ==
    IF selected < SatSub(Len(filtered), 1)
    THEN [SelLocals EXCEPT !.selected = selected + 1]
    ELSE SelLocals

\* KeyCode::Char(c) without CONTROL/ALT: filter.push(c)
SelOnChar(c) == [SelLocals EXCEPT !.filter = Append(filter, c)]

\* KeyCode::Backspace: filter.pop()
SelOnBackspace ==
    IF filter = <<>> THEN SelLocals
    ELSE LET starts == char_indices(filter)
         IN  [SelLocals EXCEPT !.filter = Slice(filter, 0, starts[Len(starts)])]

\* run_select's match on the key, arms in source order.
HandleSelectKey(k) ==
    IF k.code = "Enter" THEN SelOnEnter
    ELSE IF k.code = "Esc" THEN SelOnCancel
    ELSE IF k.code = "Char" /\ k.ch = 99 /\ IsCtrl(k) THEN SelOnCancel
    ELSE IF k.code = "Up" \/ (k.code = "Char" /\ k.ch = 107) THEN SelOnUp
    ELSE IF k.code = "Char" /\ k.ch = 112 /\ IsCtrl(k) THEN SelOnUp
    ELSE IF k.code = "Down" \/ (k.code = "Char" /\ k.ch = 106) THEN SelOnDown
    ELSE IF k.code = "Char" /\ k.ch = 110 /\ IsCtrl(k) THEN SelOnDown
    ELSE IF k.code = "Char" /\ ~IsCtrlOrAlt(k) THEN SelOnChar(k.ch)
    ELSE IF k.code = "Backspace" THEN SelOnBackspace
    ELSE SelLocals

(***************************************************************************)
(* The outer program (main.rs run_ask / run_select) and the dialog loops.  *)
(***************************************************************************)
\* The locals of a dialog once it has returned or unwound.
AskLocalsGone ==
    /\ input' = <<>>
    /\ cursor_pos' = 0
    /\ focus' = 0
    /\ scroll_offset' = 0
    /\ last_text_width' = InitialTextWidth
    /\ autocomplete_active' = FALSE
    /\ autocomplete_selected' = 0
    /\ UNCHANGED placeholder_names

SelLocalsGone ==
    /\ filter' = <<>>
    /\ selected' = 0
    /\ UNCHANGED items

\* Where App::with_theme can fail, in source order.
AcquireFailures == {"open", "raw", "alt", "mouse", "terminal"}

\* App::new / App::with_theme
AppNew ==
    /\ pc = "start"
    /\ \E fail \in AcquireFailures \cup {"none"} :
         /\ raw_mode' = (fail \in {"alt", "mouse", "terminal", "none"})
         /\ alt_screen' = (fail \in {"mouse", "terminal", "none"})
         /\ mouse_capture' = (fail \in {"terminal", "none"})
         /\ tty_log' = tty_log
                \o (IF raw_mode' THEN <<"raw_on">> ELSE <<>>)
                \o (IF alt_screen' THEN <<"alt_on">> ELSE <<>>)
                \o (IF mouse_capture' THEN <<"mouse_on">> ELSE <<>>)
         /\ app_alive' = (fail = "none")
         /\ pc' = IF fail = "none" THEN "app" ELSE "new_failed"
         /\ result' = IF fail = "none" THEN result ELSE Err
    /\ UNCHANGED <<cmd, args, ret, last_edit, io_failed, key, askVars, selVars, drawn, polled, posted>>

\* run_ask: entry, up to the loop.
EnterAsk ==
    /\ pc = "app" /\ cmd = "ask"
    /\ cursor_pos' = Len(input)
    /\ focus' = 0
    /\ scroll_offset' = 0
    /\ last_text_width' = InitialTextWidth
    /\ autocomplete_active' = FALSE
    /\ autocomplete_selected' = 0
    /\ pc' = "render"
    /\ UNCHANGED <<cmd, args, ret, last_edit, io_failed, key, input, placeholder_names, selVars, result, termVars,
                   app_alive, drawn, polled, posted>>

\* Faulty variant of UpdateAutocompleteWith: the highlight is not clamped.
UpdateAutocompleteWith_unclamped(completions) ==
    IF completions # <<>> /\ focus = 0
    THEN /\ autocomplete_active' = TRUE
         /\ UNCHANGED autocomplete_selected
    ELSE /\ autocomplete_active' = FALSE
         /\ autocomplete_selected' = 0

\* run_ask: the state update between the draw and read_key (app.rs 862-872).
UpdateAutocompleteWith(completions) ==
    IF completions # <<>> /\ focus = 0
    THEN /\ autocomplete_active' = TRUE
         /\ autocomplete_selected' =
                IF autocomplete_selected >= Len(completions) THEN 0
                ELSE autocomplete_selected
    ELSE /\ autocomplete_active' = FALSE
         /\ autocomplete_selected' = 0

UpdateAutocomplete == UpdateAutocompleteWith(current_completions)

\* run_ask: one frame (terminal.draw) and the autocomplete update after it.
\* The draw closure slices the buffer at the cursor (find_at_word) and
\* panics when the cursor is inside a character.
AskRender ==
    /\ pc = "render" /\ cmd = "ask"
    /\ IF is_char_boundary(input, cursor_pos)
       THEN /\ last_text_width' = AskTextWidth
            /\ UpdateAutocomplete
            /\ drawn' = TRUE
            /\ pc' = "key"
            /\ UNCHANGED <<input, cursor_pos, focus, scroll_offset, placeholder_names>>
       ELSE /\ AskLocalsGone
            /\ pc' = "panic"
            /\ UNCHANGED drawn
    /\ key' = NoKey
    /\ io_failed' = "none"
    /\ UNCHANGED <<cmd, args, ret, last_edit, selVars, result, termVars, app_alive, polled, posted>>

\* The bounds on the keys the user presses: the buffer grows only from fewer
\* than MaxLen bytes and shrinks only from at most MaxEdit bytes.
WithinBounds(r) ==
    /\ Len(r.input) > Len(input) => Len(input) < MaxLen
    /\ Len(r.input) < Len(input) => Len(input) <= MaxEdit

\* History of the last edits, kept for the properties only: a character key
\* that changed the buffer records the buffer and cursor it found; a Backspace
\* handled as the very next key marks the record; any other key clears it.
NoEdit == [stage |-> "none", text |-> <<>>, cursor |-> 0]

EditAfter(k, r) ==
    IF k.code = "Char" /\ r.ret = "continue" /\ r.input # input
    THEN [stage |-> "inserted", text |-> input, cursor |-> cursor_pos]
    ELSE IF k.code = "Backspace" /\ r.ret = "continue" /\ last_edit.stage = "inserted"
         THEN [last_edit EXCEPT !.stage = "removed"]
         ELSE NoEdit

\* run_ask: the loop iteration ends with the locals r after the key k.
AskApply(k, r) ==
    /\ WithinBounds(r)
    /\ IF r.ret = "panic"
       THEN /\ AskLocalsGone
            /\ pc' = "panic"
            /\ UNCHANGED result
       ELSE /\ input' = r.input
            /\ cursor_pos' = r.cursor_pos
            /\ focus' = r.focus
            /\ scroll_offset' = r.scroll_offset
            /\ autocomplete_active' = r.autocomplete_active
            /\ autocomplete_selected' = r.autocomplete_selected
            /\ UNCHANGED <<last_text_width, placeholder_names>>
            /\ pc' = IF r.ret = "continue" THEN "render" ELSE "returned"
            /\ result' = IF r.ret = "submit" THEN Submit(r.input)
                         ELSE IF r.ret = "cancel" THEN Cancel
                         ELSE result
    /\ key' = k
    /\ polled' = TRUE
    /\ last_edit' = EditAfter(k, r)
    /\ UNCHANGED <<cmd, args, ret, io_failed, selVars, termVars, app_alive, drawn, posted>>

\* run_ask: read_key returned the key k; handle it.
AskKeyStep(k) ==
    /\ cmd = "ask"
    /\ AskApply(k, HandleAskKey(k))

\* One action per key the user can press in the ask dialog.
AskTab       == pc = "key" /\ AskKeyStep(Key("Tab", 0, {}))
AskBackTab   == pc = "key" /\ AskKeyStep(Key("BackTab", 0, {"SHIFT"}))
AskEnter     == pc = "key" /\ AskKeyStep(Key("Enter", 0, {}))
AskEsc       == pc = "key" /\ AskKeyStep(Key("Esc", 0, {}))
AskUp        == pc = "key" /\ AskKeyStep(Key("Up", 0, {}))
AskDown      == pc = "key" /\ AskKeyStep(Key("Down", 0, {}))
AskChar      == pc = "key" /\ \E c \in Typable : AskKeyStep(Key("Char", c, {}))
AskBackspace == pc = "key" /\ AskKeyStep(Key("Backspace", 0, {}))
AskDelete    == pc = "key" /\ AskKeyStep(Key("Delete", 0, {}))
AskLeft      == pc = "key" /\ AskKeyStep(Key("Left", 0, {}))
AskRight     == pc = "key" /\ AskKeyStep(Key("Right", 0, {}))
AskHome      == pc = "key" /\ AskKeyStep(Key("Home", 0, {}))
AskEnd       == pc = "key" /\ AskKeyStep(Key("End", 0, {}))
AskControl   == pc = "key" /\ \E k \in ControlKeys : AskKeyStep(k)
AskAlt       == pc = "key" /\ \E k \in AltKeys : AskKeyStep(k)

\* Faulty variant of ReadNoKey: an iteration without a key puts the popup's
\* highlight and the menu's selection back on the first entry.
ReadNoKey_resets_highlight ==
    /\ pc = "key"
    /\ pc' = "render"
    /\ key' = NoKey
    /\ polled' = TRUE
    /\ autocomplete_selected' = 0
    /\ selected' = 0
    /\ UNCHANGED <<cmd, args, ret, last_edit, io_failed, input, cursor_pos, focus, scroll_offset,
                   last_text_width, autocomplete_active, placeholder_names, items, filter,
                   result, termVars, app_alive, drawn, posted>>

\* read_key returned None (timeout, or bytes that decode to no key).
ReadNoKey ==
    /\ pc = "key"
    /\ pc' = "render"
    /\ key' = NoKey
    /\ polled' = TRUE
    /\ UNCHANGED <<cmd, args, ret, last_edit, io_failed, askVars, selVars, result, termVars, app_alive, drawn, posted>>

\* read_key: libc::poll returned -1.  `if ret <= 0 { return Ok(None) }` takes it
\* for a timeout and the loop goes on.
PollFails ==
    /\ pc = "key"
    /\ io_failed' = "poll"
    /\ pc' = "render"
    /\ key' = NoKey
    /\ polled' = TRUE
    /\ UNCHANGED <<cmd, args, ret, last_edit, askVars, selVars, result, termVars, app_alive, drawn, posted>>

\* terminal.draw(..)? or read_key(..)? returned an error: the dialog returns Err.
LoopIoError ==
    /\ pc \in {"render", "key"}
    /\ io_failed' = IF pc = "render" THEN "draw" ELSE "read"
    /\ pc' = "error"
    /\ result' = Err
    /\ key' = NoKey
    /\ AskLocalsGone
    /\ SelLocalsGone
    /\ UNCHANGED <<cmd, args, ret, last_edit, termVars, app_alive, drawn, polled, posted>>

\* Faulty variant of EnterSelect: no early return for an empty list.
EnterSelect_without_empty_check ==
    /\ pc = "app" /\ cmd = "select"
    /\ pc' = "render"
    /\ selected' = 0
    /\ filter' = <<>>
    /\ UNCHANGED <<cmd, args, ret, last_edit, io_failed, key, askVars, items, result, termVars, app_alive, drawn,
                   polled, posted>>

\* run_select: entry, up to the loop.
EnterSelect ==
    /\ pc = "app" /\ cmd = "select"
    /\ IF items = <<>>
       THEN /\ pc' = "returned"
            /\ result' = Cancel
       ELSE /\ pc' = "render"
            /\ UNCHANGED result
    /\ selected' = 0
    /\ filter' = <<>>
    /\ UNCHANGED <<cmd, args, ret, last_edit, io_failed, key, askVars, items, termVars, app_alive, drawn, polled, posted>>

\* run_select: filter, clamp and draw one frame.
SelectRender ==
    /\ pc = "render" /\ cmd = "select"
    /\ selected' = ClampSelected(selected, Len(filtered))
    /\ drawn' = TRUE
    /\ pc' = "key"
    /\ key' = NoKey
    /\ io_failed' = "none"
    /\ UNCHANGED <<cmd, args, ret, last_edit, askVars, items, filter, result, termVars, app_alive, polled, posted>>

\* run_select: the loop iteration ends with the locals r after the key k.
\* The filter grows only while it holds fewer than MaxFilter bytes.
SelApply(k, r) ==
    /\ Len(r.filter) > Len(filter) => Len(filter) < MaxFilter
    /\ filter' = r.filter
    /\ selected' = r.selected
    /\ pc' = IF r.ret = "continue" THEN "render" ELSE "returned"
    /\ result' = IF r.ret = "submit" THEN Submit(r.value)
                 ELSE IF r.ret = "cancel" THEN Cancel
                 ELSE result
    /\ key' = k
    /\ polled' = TRUE
    /\ UNCHANGED <<cmd, args, ret, last_edit, io_failed, askVars, items, termVars, app_alive, drawn, posted>>

\* run_select: read_key returned the key k; handle it.
SelectKeyStep(k) ==
    /\ cmd = "select"
    /\ SelApply(k, HandleSelectKey(k))

\* One action per key the user can press in the select menu.
SelEnter     == pc = "key" /\ SelectKeyStep(Key("Enter", 0, {}))
SelEsc       == pc = "key" /\ SelectKeyStep(Key("Esc", 0, {}))
SelUp        == pc = "key" /\ SelectKeyStep(Key("Up", 0, {}))
SelDown      == pc = "key" /\ SelectKeyStep(Key("Down", 0, {}))
SelChar      ==
    pc = "key" /\ \E c \in FilterTypable \cup {107, 106} : SelectKeyStep(Key("Char", c, {}))
SelBackspace == pc = "key" /\ SelectKeyStep(Key("Backspace", 0, {}))
SelControl   == pc = "key" /\ \E k \in ControlKeys : SelectKeyStep(k)
SelAlt       == pc = "key" /\ \E k \in AltKeys : SelectKeyStep(k)
SelOther     ==
    /\ pc = "key"
    /\ \E k \in SelectKeys :
        /\ k.code \notin {"Enter", "Esc", "Up", "Down", "Char", "Backspace"}
        /\ SelectKeyStep(k)

\* main.rs: app.restore()? after the dialog returned Ok.
AppRestore ==
    /\ pc = "returned"
    /\ restore
    /\ pc' = "restored"
    /\ key' = NoKey
    /\ AskLocalsGone
    /\ SelLocalsGone
    /\ UNCHANGED <<cmd, args, ret, last_edit, io_failed, result, app_alive, drawn, polled, posted>>

\* The App value is dropped: drop(app) in main.rs, the `?` return on a dialog
\* error, or unwinding after a panic.
DropApp ==
    /\ pc \in {"restored", "error", "panic"}
    /\ app_alive
    /\ drop_app
    /\ pc' = CASE pc = "restored" -> "dropped"
               [] pc = "error"    -> "exit_err"
               [] pc = "panic"    -> "exit_panic"
    /\ UNCHANGED <<cmd, args, ret, last_edit, io_failed, key, askVars, selVars, result, drawn, polled, posted>>

\* Faulty variant of Dispatch: the value of the result is posted whatever its
\* kind.
Dispatch_posts_any_result ==
    /\ pc = "dropped"
    /\ posted' = Append(posted, result.value)
    /\ pc' = "exit_ok"
    /\ UNCHANGED <<cmd, args, ret, last_edit, io_failed, key, askVars, selVars, result, termVars, app_alive, drawn, polled>>

\* main.rs: match result { Submit => expand and send_prompt, Cancel => nothing }.
Dispatch ==
    /\ pc = "dropped"
    /\ posted' = IF result.kind = "Submit" THEN Append(posted, result.value) ELSE posted
    /\ pc' = "exit_ok"
    /\ UNCHANGED <<cmd, args, ret, last_edit, io_failed, key, askVars, selVars, result, termVars, app_alive, drawn, polled>>

(***************************************************************************)
(* The helpers of src/tui/app.rs called on their own: cmd names the call,  *)
(* args holds its arguments, ret what it returned (pc "call" -> "ret").    *)
(***************************************************************************)
NoArgs == [none |-> TRUE]
NoRet == <<>>

\* Characters of the texts the helpers are called with: 't', '\n', 'é'.
HelperChars == {<<116>>, <<NL>>, <<195, 169>>}

\* The texts of at most n characters.
RECURSIVE TextsUpTo(_)
TextsUpTo(n) ==
    IF n = 0 THEN {<<>>}
    ELSE TextsUpTo(n - 1) \cup {t \o c : t \in TextsUpTo(n - 1), c \in HelperChars}

HelperTexts == TextsUpTo(MaxChars)

\* No dialog runs and no terminal is held while a helper is called on its own.
DialogsIdle ==
    /\ key = NoKey
    /\ input = <<>>
    /\ cursor_pos = 0
    /\ focus = 0
    /\ scroll_offset = 0
    /\ last_text_width = InitialTextWidth
    /\ autocomplete_active = FALSE
    /\ autocomplete_selected = 0
    /\ placeholder_names = <<>>
    /\ items = <<>>
    /\ filter = <<>>
    /\ selected = 0
    /\ result = NoResult
    /\ raw_mode = FALSE
    /\ alt_screen = FALSE
    /\ mouse_capture = FALSE
    /\ tty_log = <<>>
    /\ app_alive = FALSE
    /\ drawn = FALSE
    /\ polled = FALSE
    /\ posted = <<>>
    /\ last_edit = NoEdit
    /\ io_failed = "none"

\* A helper call returns v.
Returns(v) ==
    /\ ret' = v
    /\ pc' = "ret"
    /\ UNCHANGED <<cmd, args, key, askVars, selVars, result, termVars, app_alive,
                   drawn, polled, posted, last_edit, io_failed>>

\* cursor_to_line_col(text, pos), then line_col_to_cursor(text, line, col) on
\* the pair it returned.
LineColArgs ==
    UNION {{[text |-> t, pos |-> p] : p \in 0 .. Len(t)} : t \in HelperTexts}

CallCursorToLineCol ==
    /\ pc = "call" /\ cmd = "line_col_round_trip"
    /\ ret' = cursor_to_line_col(args.text, args.pos)
    /\ pc' = "line_col"
    /\ UNCHANGED <<cmd, args, key, askVars, selVars, result, termVars, app_alive,
                   drawn, polled, posted, last_edit, io_failed>>

CallLineColToCursor ==
    /\ pc = "line_col" /\ cmd = "line_col_round_trip"
    /\ Returns(line_col_to_cursor(args.text, ret[1], ret[2]))

(***************************************************************************)
(* Specifications.                                                         *)
(***************************************************************************)
InitCommon ==
    /\ pc = "start"
    /\ args = NoArgs
    /\ ret = NoRet
    /\ last_edit = NoEdit
    /\ io_failed = "none"
    /\ key = NoKey
    /\ cursor_pos = 0
    /\ focus = 0
    /\ scroll_offset = 0
    /\ last_text_width = InitialTextWidth
    /\ autocomplete_active = FALSE
    /\ autocomplete_selected = 0
    /\ filter = <<>>
    /\ selected = 0
    /\ result = NoResult
    /\ raw_mode = FALSE
    /\ alt_screen = FALSE
    /\ mouse_capture = FALSE
    /\ tty_log = <<>>
    /\ app_alive = FALSE
    /\ drawn = FALSE
    /\ polled = FALSE
    /\ posted = <<>>

\* `opencode-helix ask <initial>`
InitAsk ==
    /\ InitCommon
    /\ cmd = "ask"
    /\ input \in InitialTexts
    /\ placeholder_names \in PlaceholderLists
    /\ items = <<>>

\* `opencode-helix select`
InitSelect ==
    /\ InitCommon
    /\ cmd = "select"
    /\ items \in ItemLists
    /\ input = <<>>
    /\ placeholder_names = <<>>

Outer ==
    \/ AppNew \/ AppRestore \/ DropApp \/ Dispatch
    \/ LoopIoError \/ ReadNoKey \/ PollFails

NextAsk ==
    \/ Outer
    \/ EnterAsk \/ AskRender
    \/ AskTab \/ AskBackTab \/ AskEnter \/ AskEsc \/ AskUp \/ AskDown \/ AskChar
    \/ AskBackspace \/ AskDelete \/ AskLeft \/ AskRight \/ AskHome \/ AskEnd
    \/ AskControl \/ AskAlt

NextSelect ==
    \/ Outer
    \/ EnterSelect \/ SelectRender
    \/ SelEnter \/ SelEsc \/ SelUp \/ SelDown \/ SelChar \/ SelBackspace
    \/ SelControl \/ SelAlt \/ SelOther

SpecAsk == InitAsk /\ [][NextAsk]_vars
SpecSelect == InitSelect /\ [][NextSelect]_vars

\* Either dialog.
InitDialogs == InitAsk \/ InitSelect

NextDialogs ==
    \/ Outer
    \/ EnterAsk \/ AskRender
    \/ AskTab \/ AskBackTab \/ AskEnter \/ AskEsc \/ AskUp \/ AskDown \/ AskChar
    \/ AskBackspace \/ AskDelete \/ AskLeft \/ AskRight \/ AskHome \/ AskEnd
    \/ AskControl \/ AskAlt
    \/ EnterSelect \/ SelectRender
    \/ SelEnter \/ SelEsc \/ SelUp \/ SelDown \/ SelChar \/ SelBackspace
    \/ SelControl \/ SelAlt \/ SelOther

SpecDialogs == InitDialogs /\ [][NextDialogs]_vars

\* wrap_text called on its own, with the prompt's prefix width or none.
WrapArgs ==
    {[text |-> t, width |-> w, prefix_width |-> p] :
        t \in HelperTexts, w \in 0 .. MaxWidth, p \in {0, PromptLen}}

CallWrapText ==
    /\ pc = "call" /\ cmd = "wrap_text"
    /\ Returns(wrap_text(args.text, args.width, args.prefix_width))

\* The rows put back together: their texts in order, with a newline between
\* two rows of different logical lines.
RECURSIVE Reassembled(_)
Reassembled(rows) ==
    IF rows = <<>> THEN <<>>
    ELSE IF Len(rows) = 1 THEN rows[1].text
    ELSE rows[1].text
         \o (IF rows[1].logical_line # rows[2].logical_line THEN <<NL>> ELSE <<>>)
         \o Reassembled(Tail(rows))

\* filter_placeholders called on its own: partial tokens over '@', 't', 'T',
\* 'b', against no names, the names of a context with a file, and the four
\* names of test_filter_placeholders.
RECURSIVE PartialsUpTo(_)
PartialsUpTo(n) ==
    IF n = 0 THEN {<<>>}
    ELSE PartialsUpTo(n - 1)
         \cup {Append(t, c) : t \in PartialsUpTo(n - 1), c \in {AT, 116, 84, 98}}

FilterArgs ==
    {[partial |-> t, names |-> ns] :
        t \in PartialsUpTo(MaxPartial),
        ns \in PlaceholderLists}

CallFilterPlaceholders ==
    /\ pc = "call" /\ cmd = "filter_placeholders"
    /\ Returns(filter_placeholders(args.partial, args.names))

(***************************************************************************)
(* src/context.rs: Context and Context::expand.                            *)
(***************************************************************************)
None == [some |-> FALSE, value |-> <<>>]
Some(v) == [some |-> TRUE, value |-> v]

\* format!("{}", n) for an unsigned number.
RECURSIVE Decimal(_)
Decimal(n) == IF n < 10 THEN <<48 + n>> ELSE Decimal(n \div 10) \o <<48 + (n % 10)>>

\* str::replace(from, to): every non-overlapping match, left to right.
RECURSIVE replace(_, _, _)
replace(t, from, to) ==
    IF Len(t) < Len(from) THEN t
    ELSE IF SubSeq(t, 1, Len(from)) = from
         THEN to \o replace(SubSeq(t, Len(from) + 1, Len(t)), from, to)
         ELSE <<Head(t)>> \o replace(Tail(t), from, to)

\* Context::format_file
format_file(ctx) ==
    IF ctx.file.some THEN Some(<<AT>> \o ctx.file.value) ELSE None

\* Context::format_location
format_location(ctx) ==
    IF ~ctx.file.some THEN None
    ELSE IF ctx.selection_start.some /\ ctx.selection_end.some
    THEN Some(<<AT>> \o ctx.file.value \o <<SP, 76>> \o Decimal(ctx.selection_start.value)
              \o <<45, 76>> \o Decimal(ctx.selection_end.value))
    ELSE IF ctx.line.some
    THEN IF ctx.column.some
         THEN Some(<<AT>> \o ctx.file.value \o <<SP, 76>> \o Decimal(ctx.line.value)
                   \o <<58, 67>> \o Decimal(ctx.column.value))
         ELSE Some(<<AT>> \o ctx.file.value \o <<SP, 76>> \o Decimal(ctx.line.value))
    ELSE Some(<<AT>> \o ctx.file.value)

\* Context::format_this
format_this(ctx) == format_location(ctx)

\* Context::format_buffer
format_buffer(ctx) == format_file(ctx)

\* Faulty variant of format_selection: the selection is formatted even when
\* there is no location to put in front of it.
format_selection_without_location(ctx) ==
    IF ctx.selection.some
    THEN Some(format_location(ctx).value \o <<NL, 96, 96, 96, NL>>
              \o ctx.selection.value \o <<NL, 96, 96, 96>>)
    ELSE None

\* Context::format_selection
format_selection(ctx) ==
    IF ctx.selection.some
    THEN IF format_location(ctx).some
         THEN Some(format_location(ctx).value \o <<NL, 96, 96, 96, NL>>
                   \o ctx.selection.value \o <<NL, 96, 96, 96>>)
         ELSE None
    ELSE None

AtDiff == <<64, 100, 105, 102, 102>>

\* One `if let Some(v) = .. { result = result.replace(name, &v) }` of expand.
ReplacedIfSome(result_, name, v) ==
    IF v.some THEN replace(result_, name, v.value) ELSE result_

\* The @diff step of expand: format_diff runs only if the text holds "@diff".
ReplacedDiff(result_, diff) ==
    IF contains(result_, AtDiff) THEN ReplacedIfSome(result_, AtDiff, diff) ELSE result_

\* Context::expand(prompt); diff is what format_diff returns when it is called
\* (the output of `git --no-pager diff`, None when it fails or prints nothing).
expand(ctx, prompt, diff) ==
    ReplacedDiff(
        ReplacedIfSome(
            ReplacedIfSome(
                ReplacedIfSome(prompt, AtThis, format_this(ctx)),
                AtBuffer, format_buffer(ctx)),
            AtSelection, format_selection(ctx)),
        diff)

\* Contexts: file "f", line 4, column 2, selection "s", selection lines 1-2,
\* each present or absent.
Contexts ==
    {[file |-> f, line |-> l, column |-> c, selection |-> sel,
      selection_start |-> ss, selection_end |-> se] :
        f \in {None, Some(<<102>>)}, l \in {None, Some(4)}, c \in {None, Some(2)},
        sel \in {None, Some(<<115>>)}, ss \in {None, Some(1)}, se \in {None, Some(2)}}

\* Prompts: up to MaxTokens pieces out of the four placeholders, "x" and "@".
RECURSIVE PromptsUpTo(_)
PromptsUpTo(n) ==
    IF n = 0 THEN {<<>>}
    ELSE PromptsUpTo(n - 1)
         \cup {t \o c : t \in PromptsUpTo(n - 1),
                         c \in {AtThis, AtBuffer, AtSelection, AtDiff, <<120>>, <<AT>>}}

\* The git diff is absent or "+x".
ExpandArgs ==
    {[ctx |-> ctx, prompt |-> p, diff |-> d] :
        ctx \in Contexts, p \in PromptsUpTo(MaxTokens), d \in {None, Some(<<43, 120>>)}}

CallExpand ==
    /\ pc = "call" /\ cmd = "expand"
    /\ Returns(expand(args.ctx, args.prompt, args.diff))

(***************************************************************************)
(* App::read_key and App::parse_key: bytes from /dev/tty to key events.    *)
(* A key event is Key(code, ch, mods), ch the code point of a Char key;    *)
(* NoKey stands for the None both functions can return.                    *)
(***************************************************************************)
ESC == 27
READ_MAX == 16

\* std::str::from_utf8(bytes).is_ok(): every character well formed.
Utf8Width(b) ==
    IF b < 128 THEN 1
    ELSE IF b >= 194 /\ b <= 223 THEN 2
    ELSE IF b >= 224 /\ b <= 239 THEN 3
    ELSE IF b >= 240 /\ b <= 244 THEN 4
    ELSE 0

Utf8CharAt(t, i) ==
    LET w == Utf8Width(t[i])
    IN  /\ w > 0
        /\ i + w - 1 <= Len(t)
        /\ \A j \in i + 1 .. i + w - 1 : IsCont(t[j])
        /\ t[i] = 224 => t[i + 1] >= 160
        /\ t[i] = 237 => t[i + 1] <= 159
        /\ t[i] = 240 => t[i + 1] >= 144
        /\ t[i] = 244 => t[i + 1] <= 143

RECURSIVE Utf8ValidFrom(_, _)
Utf8ValidFrom(t, i) ==
    IF i > Len(t) THEN TRUE
    ELSE Utf8CharAt(t, i) /\ Utf8ValidFrom(t, i + Utf8Width(t[i]))

\* s.chars().next() of a valid string: the code point of its first character.
FirstCodePoint(t) ==
    LET w == Utf8Width(t[1])
    IN  IF w = 1 THEN t[1]
        ELSE IF w = 2 THEN (t[1] - 192) * 64 + (t[2] - 128)
        ELSE IF w = 3 THEN (t[1] - 224) * 4096 + (t[2] - 128) * 64 + (t[3] - 128)
        ELSE (t[1] - 240) * 262144 + (t[2] - 128) * 4096 + (t[3] - 128) * 64
             + (t[4] - 128)

\* Faulty variant of CsiKey: every CSI sequence is taken for Escape.
CsiKey_all_escape(rest) == Key("Esc", 0, {})

\* parse_key: the inner match on the bytes after ESC [.
CsiKey(rest) ==
    IF rest = <<65>> THEN Key("Up", 0, {})
    ELSE IF rest = <<66>> THEN Key("Down", 0, {})
    ELSE IF rest = <<67>> THEN Key("Right", 0, {})
    ELSE IF rest = <<68>> THEN Key("Left", 0, {})
    ELSE IF rest = <<72>> THEN Key("Home", 0, {})
    ELSE IF rest = <<70>> THEN Key("End", 0, {})
    ELSE IF rest = <<51, 126>> THEN Key("Delete", 0, {})
    ELSE IF rest = <<90>> THEN Key("BackTab", 0, {"SHIFT"})
    ELSE Key("Esc", 0, {})

\* Faulty variant of Utf8Key: bytes that are not UTF-8 become U+FFFD.
Utf8Key_lossy(bytes) == Key("Char", 65533, {})

\* Faulty variant of AltKey: the ALT modifier is lost.
AltKey_without_modifier(c) == Key("Char", c, {})

\* parse_key: [0x1b, c] if c >= 0x20 && c < 0x7f
AltKey(c) == Key("Char", c, {"ALT"})

\* parse_key: the last arm, from_utf8 and the first character.
Utf8Key(bytes) ==
    IF Utf8ValidFrom(bytes, 1) THEN Key("Char", FirstCodePoint(bytes), {}) ELSE NoKey

\* App::parse_key(bytes), arms in source order.
parse_key(bytes) ==
    IF bytes = <<>> THEN NoKey
    ELSE IF bytes = <<ESC>> THEN Key("Esc", 0, {})
    ELSE IF bytes \in {<<13>>, <<10>>} THEN Key("Enter", 0, {})
    ELSE IF bytes \in {<<127>>, <<8>>} THEN Key("Backspace", 0, {})
    ELSE IF bytes = <<9>> THEN Key("Tab", 0, {})
    ELSE IF bytes = <<3>> THEN Key("Char", 99, {"CONTROL"})
    ELSE IF bytes = <<4>> THEN Key("Char", 100, {"CONTROL"})
    ELSE IF bytes = <<14>> THEN Key("Char", 110, {"CONTROL"})
    ELSE IF bytes = <<16>> THEN Key("Char", 112, {"CONTROL"})
    ELSE IF Len(bytes) = 1 /\ bytes[1] >= 1 /\ bytes[1] <= 26
         THEN Key("Char", bytes[1] + 96, {"CONTROL"})
    ELSE IF Len(bytes) >= 2 /\ bytes[1] = ESC /\ bytes[2] = 91
         THEN CsiKey(SubSeq(bytes, 3, Len(bytes)))
    ELSE IF Len(bytes) = 2 /\ bytes[1] = ESC /\ bytes[2] >= 32 /\ bytes[2] < 127
         THEN AltKey(bytes[2])
    ELSE IF bytes[1] = ESC THEN Key("Esc", 0, {})
    ELSE IF Len(bytes) = 1 /\ bytes[1] >= 32 /\ bytes[1] < 127
         THEN Key("Char", bytes[1], {})
    ELSE Utf8Key(bytes)

\* parse_key called on its own: every single byte, ESC with every second
\* byte, the CSI sequences of the table and some others, and the characters
\* U+00E9, U+20AC, U+1F600 and a lone continuation byte pair.
ParseInputs ==
    {<<b>> : b \in 0 .. 255}
    \cup {<<ESC, b>> : b \in 0 .. 255}
    \cup {<<ESC, 91, b>> : b \in 64 .. 90}
    \cup {<<ESC, 91, 51, 126>>, <<ESC, 91, 49, 59, 53, 65>>, <<ESC, 79, 80>>}
    \cup {<<195, 169>>, <<226, 130, 172>>, <<240, 159, 152, 128>>, <<169, 195>>}

CallParseKey ==
    /\ pc = "call" /\ cmd = "parse_key"
    /\ Returns(parse_key(args.bytes))

\* One call of read_key with the bytes pending on /dev/tty, all of which have
\* been sent; events are the results so far.  The first read takes one byte.
\* After ESC the second poll finds n further bytes arrived (none: a bare
\* Escape) and one read takes them, at most READ_MAX.
ReadKeyFrom(pending, events) ==
    \E n \in 0 .. Min(READ_MAX, Len(pending) - 1) :
        /\ pending[1] # ESC => n = 0
        /\ LET event == IF pending[1] # ESC THEN parse_key(<<pending[1]>>)
                        ELSE IF n = 0 THEN Key("Esc", 0, {})
                        ELSE parse_key(SubSeq(pending, 1, n + 1))
               left == SubSeq(pending, n + 2, Len(pending))
           IN  /\ ret' = [pending |-> left, events |-> Append(events, event)]
               /\ pc' = IF left = <<>> THEN "ret" ELSE "reading"
        /\ UNCHANGED <<cmd, args, key, askVars, selVars, result, termVars, app_alive,
                       drawn, polled, posted, last_edit, io_failed>>

\* What the terminal sends for some keys of the table: t, Enter, Up, Down,
\* Delete, Alt+t.
TableEntries ==
    {<<116>>, <<13>>, <<ESC, 91, 65>>, <<ESC, 91, 66>>, <<ESC, 91, 51, 126>>, <<ESC, 116>>}

\* Two key presses, one after the other.
EntryPairs == TableEntries \X TableEntries

\* What the user's terminal sends for one or two key presses.
ReadInputs ==
    {p[1] \o p[2] : p \in EntryPairs} \cup
    {<<116>>, <<13>>, <<ESC>>, <<ESC, 116>>, <<ESC, 91, 65>>, <<ESC, 91, 51, 126>>,
     <<ESC, 91, 65, ESC, 91, 66>>, <<116, 84>>,
     <<195, 169>>, <<226, 130, 172>>, <<240, 159, 152, 128>>,
     <<255>>, <<128>>, <<169, 195>>, <<ESC, 1>>, <<ESC, 79, 80>>,
     <<ESC, 91, 49, 59, 53, 65>>, <<ESC, 91, 77, 32, 33, 33>>}
    \cup {<<ESC, b>> : b \in 32 .. 126}

CallReadKey ==
    /\ pc = "call" /\ cmd = "read_key"
    /\ ReadKeyFrom(args.bytes, <<>>)

NextReadKey ==
    /\ pc = "reading" /\ cmd = "read_key"
    /\ ReadKeyFrom(ret.pending, ret.events)

(***************************************************************************)
(* The dialog rectangle computed at the head of each draw closure, in u16  *)
(* arithmetic.  An overflowing subtraction panics in a build with overflow *)
(* checks and wraps modulo 2^16 in one without.                            *)
(***************************************************************************)
U16 == 65536
MaxTermHeight == 26
MaxEntries == 4

Rect(x, y, width, height) ==
    [panic |-> FALSE, x |-> x, y |-> y, width |-> width, height |-> height]

Panicked == [panic |-> TRUE, x |-> 0, y |-> 0, width |-> 0, height |-> 0]

wrapping_sub(a, b) == (a - b + U16) % U16

\* run_ask: dialog_height for n placeholders.
AskDialogHeight(n) ==
    IF n > 0 THEN 13 + input_visible_lines + n ELSE 9 + input_visible_lines

\* run_ask: dialog_width
AskDialogWidth(area, n) == IF n > 0 THEN Min(area.width, 80) ELSE Min(area.width, 70)

\* The centred Rect of both dialogs; the width never exceeds the area's.
Centred(area, width, height, checked) ==
    IF area.height < height /\ checked THEN Panicked
    ELSE Rect((area.width - width) \div 2, wrapping_sub(area.height, height) \div 2,
              width, height)

\* run_ask: dialog_area for a terminal of size area and n placeholders.
ask_dialog_area(area, n, checked) ==
    Centred(area, AskDialogWidth(area, n), AskDialogHeight(n), checked)

\* run_select: dialog_area for a terminal of size area and n items.
select_dialog_area(area, n, checked) ==
    IF area.height < 4 /\ checked THEN Panicked
    ELSE Centred(area, Min(area.width, 70),
                 Min((n + 6) % U16, wrapping_sub(area.height, 4)), checked)

\* Terminal sizes, and the number of placeholders or items.
AreaArgs ==
    {[dialog |-> d, area |-> [width |-> w, height |-> h], n |-> n] :
        d \in {"ask", "select"}, w \in {0, 1, 69, 70, 71, 80, 81, 200},
        h \in 0 .. MaxTermHeight, n \in 0 .. MaxEntries}

\* One frame's dialog_area, in either kind of build.
CallDialogArea ==
    /\ pc = "call" /\ cmd = "dialog_area"
    /\ \E checked \in BOOLEAN :
         Returns(IF args.dialog = "ask"
                 THEN ask_dialog_area(args.area, args.n, checked)
                 ELSE select_dialog_area(args.area, args.n, checked))

\* The helpers called on their own.
InitHelpers ==
    /\ pc = "call"
    /\ ret = NoRet
    /\ DialogsIdle
    /\ \/ cmd = "line_col_round_trip" /\ args \in LineColArgs
       \/ cmd = "wrap_text" /\ args \in WrapArgs
       \/ cmd = "filter_placeholders" /\ args \in FilterArgs
       \/ cmd = "expand" /\ args \in ExpandArgs
       \/ cmd = "parse_key" /\ args \in {[bytes |-> b] : b \in ParseInputs}
       \/ cmd = "read_key" /\ args \in {[bytes |-> b] : b \in ReadInputs}
       \/ cmd = "dialog_area" /\ args \in AreaArgs

NextHelpers ==
    \/ CallCursorToLineCol \/ CallLineColToCursor
    \/ CallWrapText
    \/ CallFilterPlaceholders
    \/ CallExpand
    \/ CallParseKey
    \/ CallReadKey \/ NextReadKey
    \/ CallDialogArea

SpecHelpers == InitHelpers /\ [][NextHelpers]_vars

(***************************************************************************)
(* Properties of the two dialogs.                                          *)
(***************************************************************************)

\* C1: in the input dialog, after each key event is handled the cursor
\* position is a byte offset in [0, len(text)] that lies on a UTF-8 character
\* boundary of the buffer, for every initial text (multi-byte characters
\* included) and every sequence of keys.
C1_CursorOnCharBoundary ==
    (cmd = "ask" /\ key # NoKey /\ pc \in {"render", "returned"}) =>
        /\ cursor_pos \in 0 .. Len(input)
        /\ is_char_boundary(input, cursor_pos)

C3_Enter ==
    /\ [](cmd = "ask" /\ result.kind = "Submit" => result.value # <<>>)
    /\ [][(/\ cmd = "ask" /\ pc = "key" /\ ~autocomplete_active
           /\ key' = Key("Enter", 0, {})) =>
            IF focus \in {0, 1}
            THEN IF input # <<>>
                 THEN pc' = "returned" /\ result' = Submit(input)
                 ELSE /\ pc' = "render" /\ result' = result
                      /\ input' = input /\ cursor_pos' = cursor_pos /\ focus' = focus
            ELSE pc' = "returned" /\ result' = Cancel]_vars

\* Enter submitted a buffer that holds a placeholder, as it stands.
C3_Witness ==
    /\ cmd = "ask" /\ pc = "returned"
    /\ key = Key("Enter", 0, {})
    /\ result = Submit(AtThis \o <<SP>>)

\* C4 as stated: an Escape or Control+C key event ends the input dialog with
\* Cancel from each of the three focus states, whatever the buffer and cursor.
C4_EscOrCtrlCCancels ==
    (cmd = "ask" /\ key \in {Key("Esc", 0, {}), Key("Char", 99, {"CONTROL"})}) =>
        (pc = "returned" /\ result = Cancel)

\* C4, amended: Control+C always ends the input dialog with Cancel; Escape
\* ends it with Cancel whenever the autocomplete popup is inactive (so always
\* with focus SendButton or CancelButton); with the popup active Escape only
\* closes the popup: the dialog continues, buffer, cursor and focus unchanged.
C4_CancelKeys ==
    [][(cmd = "ask" /\ pc = "key") =>
        /\ key' = Key("Char", 99, {"CONTROL"}) =>
                (pc' = "returned" /\ result' = Cancel)
        /\ (key' = Key("Esc", 0, {}) /\ ~autocomplete_active) =>
                (pc' = "returned" /\ result' = Cancel)
        /\ (key' = Key("Esc", 0, {}) /\ focus # 0) =>
                (pc' = "returned" /\ result' = Cancel)
        /\ (key' = Key("Esc", 0, {}) /\ autocomplete_active) =>
                /\ pc' = "render" /\ result' = result
                /\ ~autocomplete_active'
                /\ input' = input /\ cursor_pos' = cursor_pos /\ focus' = focus]_vars

\* Escape was handled with the popup open: the dialog goes on.
C4_Witness ==
    /\ cmd = "ask" /\ pc = "render"
    /\ key = Key("Esc", 0, {})
    /\ input = <<AT>> /\ cursor_pos = 1 /\ focus = 0

\* C5: in the selection dialog, wherever a frame is rendered or a key is
\* handled, 0 <= selected < len(filtered) when the filtered view is non-empty
\* and selected = 0 when it is empty.
C5_SelectedInRange ==
    (cmd = "select" /\ pc = "key") =>
        IF filtered # <<>> THEN selected \in 0 .. Len(filtered) - 1
        ELSE selected = 0

\* A filter edit shortened the view below the whole list and the selection
\* sits on its last row, below the first.
C5_Witness ==
    /\ cmd = "select" /\ pc = "key"
    /\ filter # <<>>
    /\ Len(filtered) < Len(items)
    /\ selected > 0
    /\ selected = Len(filtered) - 1

\* C6: in the selection dialog Enter returns Submit(v), v the value of the
\* item at index `selected` of the filtered view, hence the value of an item
\* of the input list that matches the filter; with an empty filtered view
\* Enter does not end the dialog.
C6_EnterSubmitsSelected ==
    [][(cmd = "select" /\ pc = "key" /\ key' = Key("Enter", 0, {})) =>
        IF \E i \in 1 .. Len(items) : Matches(items[i], filter)
        THEN /\ pc' = "returned"
             /\ result' = Submit(filtered[selected + 1].value)
             /\ \E i \in 1 .. Len(items) :
                    /\ Matches(items[i], filter)
                    /\ result'.value = items[i].value
                    /\ selected =
                         Cardinality({j \in 1 .. i - 1 : Matches(items[j], filter)})
        ELSE pc' = "render" /\ result' = result]_vars

\* The filter "r" is typed and Enter submits the value of `review`.
C6_Witness ==
    /\ cmd = "select" /\ pc = "returned"
    /\ key = Key("Enter", 0, {})
    /\ filter = <<114>>
    /\ result = Submit(Item_review.value)

\* C7: run_select with an empty item list returns Cancel at once: no frame is
\* rendered and no key event is read.
C7_EmptyListCancels ==
    (cmd = "select" /\ items = <<>>) =>
        /\ ~drawn /\ ~polled
        /\ pc \in {"start", "new_failed", "app", "returned", "restored", "dropped",
                   "exit_ok"}
        /\ pc \in {"returned", "restored", "dropped", "exit_ok"} => result = Cancel
        /\ posted = <<>>

\* run_select returned for an empty list.
C7_Witness ==
    /\ cmd = "select" /\ items = <<>>
    /\ pc = "returned" /\ result = Cancel

\* C8 as stated: when a key is handled, autocomplete is active if and only if
\* there is an '@' before the cursor and the text from the most recent '@'
\* before the cursor up to the cursor contains no whitespace.  Taken for the
\* runs in which the caller passed placeholder names.
C8_ActiveIffAtToken ==
    (cmd = "ask" /\ pc = "key" /\ placeholder_names # <<>>) =>
        (autocomplete_active <=>
            \E a \in 1 .. cursor_pos :
                /\ input[a] = AT
                /\ \A j \in a + 1 .. cursor_pos : input[j] \notin {AT, SP, NL, CR, 9})

\* C8, amended: when a key is handled, autocomplete is active if and only if
\* the focus is on the input, there is an '@' before the cursor, the text from
\* the most recent '@' before the cursor up to the cursor contains no space,
\* and at least one placeholder name starts with that text, letter case
\* ignored.
C8_ActiveIffCompletions ==
    (cmd = "ask" /\ pc = "key") =>
        (autocomplete_active <=>
            /\ focus = 0
            /\ \E a \in 1 .. cursor_pos :
                /\ input[a] = AT
                /\ \A j \in a + 1 .. cursor_pos : input[j] \notin {AT, SP}
                /\ \E n \in 1 .. Len(placeholder_names) :
                    /\ Len(placeholder_names[n]) >= cursor_pos - a + 1
                    /\ \A j \in a .. cursor_pos :
                          ToLowerByte(placeholder_names[n][j - a + 1])
                              = ToLowerByte(input[j]))

\* The popup is open on the second of two '@' tokens, typed in upper case.
C8_Witness ==
    /\ cmd = "ask" /\ pc = "key"
    /\ autocomplete_active
    /\ input = <<AT, AT, 84>> /\ cursor_pos = 3

\* C9: with the popup active, Tab or Enter replaces the partial token (from
\* its '@' up to the cursor) with the full name of the highlighted completion
\* followed by exactly one space, puts the cursor right after that space,
\* leaves the rest of the buffer unchanged, neither submits nor changes focus,
\* and leaves the popup inactive.
C9_AcceptCompletion ==
    [][(/\ cmd = "ask" /\ pc = "key" /\ autocomplete_active
        /\ key' \in {Key("Tab", 0, {}), Key("Enter", 0, {})}) =>
        \E a \in 0 .. cursor_pos - 1 :
            /\ input[a + 1] = AT
            /\ \A j \in a + 2 .. cursor_pos : input[j] # AT
            /\ LET name == filter_placeholders(Slice(input, a, cursor_pos),
                                               placeholder_names)
                                [autocomplete_selected + 1]
               IN  /\ input' = Slice(input, 0, a) \o name \o <<SP>>
                               \o Slice(input, cursor_pos, Len(input))
                   /\ cursor_pos' = a + Len(name) + 1
            /\ focus' = focus
            /\ pc' = "render" /\ result' = result
            /\ ~autocomplete_active']_vars

\* Enter accepted `@this` for the token "@" in front of a "t": outside the
\* popup, Enter on a non-empty buffer would have ended the dialog.
C9_Witness ==
    /\ cmd = "ask" /\ pc = "render"
    /\ key = Key("Enter", 0, {})
    /\ focus = 0
    /\ input = AtThis \o <<SP, 116>> /\ cursor_pos = 6

\* C10: in the input dialog, whenever a frame is rendered the cursor's visual
\* row r in the wrapped layout satisfies scroll <= r < scroll + visible_lines,
\* for every initial text and every sequence of keys.
C10_CursorRowVisible ==
    (cmd = "ask" /\ pc = "key") =>
        LET r == cursor_to_visual_pos(input, cursor_pos, last_text_width, PromptLen)[1]
        IN  scroll_offset <= r /\ r < scroll_offset + input_visible_lines

\* C11: for every buffer t and every byte offset p in [0, len(t)] on a
\* character boundary, line_col_to_cursor(t, cursor_to_line_col(t, p)) = p.
C11_LineColRoundTrip ==
    (/\ cmd = "line_col_round_trip" /\ pc = "ret"
     /\ is_char_boundary(args.text, args.pos)) =>
        ret = args.pos

\* C12: in the input dialog with focus Input, handling a character key and
\* then Backspace yields the original buffer and the original cursor position,
\* for every buffer, cursor position and insertable character.
C12_InsertThenBackspace ==
    (cmd = "ask" /\ pc \in {"render", "key"} /\ last_edit.stage = "removed") =>
        /\ focus = 0
        /\ input = last_edit.text
        /\ cursor_pos = last_edit.cursor

\* 'T' was typed in front of "\u00e9" and Backspace took it out again.
C12_Witness ==
    /\ cmd = "ask" /\ pc = "render"
    /\ key = Key("Backspace", 0, {})
    /\ last_edit = [stage |-> "removed", text |-> <<195, 169>>, cursor |-> 0]
    /\ input = <<195, 169>> /\ cursor_pos = 0

\* C13: for every buffer and every width, the rows of wrap_text, concatenated
\* in order with a newline exactly between rows of different logical lines,
\* equal the original text.
C13_WrapReassembles ==
    (cmd = "wrap_text" /\ pc = "ret") => Reassembled(ret) = args.text

\* "t\u00e9" and an empty second line, wrapped at one character per row: two
\* rows for the first line, one for the second.
C13_Witness ==
    /\ cmd = "wrap_text" /\ pc = "ret"
    /\ args = [text |-> <<116, 195, 169, 10>>, width |-> 1, prefix_width |-> 0]
    /\ Len(ret) = 3
    /\ ret[2] = WrappedLine(<<195, 169>>, 0, FALSE, 1)
    /\ ret[3] = WrappedLine(<<>>, 1, TRUE, 4)

\* C14: terminal release is idempotent: a release that runs on a terminal
\* already released (raw mode, alternate screen and mouse capture all off
\* after an earlier release) emits no escape sequence and changes no mode.
C14_SecondReleaseIsNoOp ==
    [][(/\ ~raw_mode /\ ~alt_screen /\ ~mouse_capture
        /\ \E i \in 1 .. Len(tty_log) : tty_log[i] = "raw_off")
       => UNCHANGED termVars]_vars

\* C15: with focus Input and the popup inactive, Up moves the cursor to the
\* previous logical line and Down to the next one, at column min(current
\* column, length of the target line); Up on the first line and Down on the
\* last line leave the cursor unchanged; the buffer is never changed.
C15_UpDownByLine ==
    [][(/\ cmd = "ask" /\ pc = "key" /\ focus = 0 /\ ~autocomplete_active
        /\ key'.code \in {"Up", "Down"})
       => LET lc == cursor_to_line_col(input, cursor_pos)
              target == IF key'.code = "Up" THEN lc[1] - 1 ELSE lc[1] + 1
              pieces == SplitNL(input)
          IN  /\ input' = input
              /\ pc' = "render"
              /\ IF target < 0 \/ target >= Len(pieces)
                 THEN cursor_pos' = cursor_pos
                 ELSE /\ is_char_boundary(input, cursor_pos')
                      /\ cursor_to_line_col(input, cursor_pos')
                            = <<target, Min(lc[2], CharCount(pieces[target + 1]))>>]_vars

C17_FilteredView ==
    (cmd = "select" /\ pc \in {"render", "key"}) =>
        LET Low(b) == IF b \in 65 .. 90 THEN b + 32 ELSE b
            Has(h, n) == \E k \in 0 .. Len(h) - Len(n) :
                            \A i \in 1 .. Len(n) : Low(h[k + i]) = Low(n[i])
            keep == {i \in 1 .. Len(items) :
                        Has(items[i].name, filter) \/ Has(items[i].description, filter)}
        IN  /\ Len(filtered) = Cardinality(keep)
            /\ \A i \in keep : filtered[Cardinality({j \in keep : j <= i})] = items[i]

\* The filter "x" has been typed and the view drawn: "explain" and "fix"
\* remain, in that order, "review" is gone.
C17_Witness ==
    /\ cmd = "select" /\ pc = "key"
    /\ filter = <<120>>
    /\ filtered = <<Item_explain, Item_fix>>

\* C18: in the selection dialog Up, 'k' and Control+P decrease selected by one
\* unless it is 0; Down, 'j' and Control+N increase it by one unless it is the
\* last index of the filtered view (or the view is empty); at the ends the
\* selection stays where it is, and none of these keys changes the filter.
C18_BoundedNavigation ==
    [][(cmd = "select" /\ pc = "key" /\ pc' # "key") =>
          LET k == key'
              up == \/ k.code = "Up"
                    \/ k = Key("Char", 107, {})
                    \/ k = Key("Char", 112, {"CONTROL"})
              down == \/ k.code = "Down"
                      \/ k = Key("Char", 106, {})
                      \/ k = Key("Char", 110, {"CONTROL"})
          IN  /\ up => /\ selected' = IF selected = 0 THEN 0 ELSE selected - 1
                       /\ filter' = filter /\ pc' = "render"
              /\ down => /\ selected' = IF selected + 1 < Len(filtered)
                                         THEN selected + 1 ELSE selected
                         /\ filter' = filter /\ pc' = "render"]_vars

\* 'j' has moved the selection to the last of the three items.
C18_Witness ==
    /\ cmd = "select" /\ pc = "render"
    /\ key = Key("Char", 106, {})
    /\ filter = <<>> /\ Len(filtered) = 3
    /\ selected = 2

\* C19: for every partial token and placeholder list, filter_placeholders
\* returns exactly the names that start with the partial token when both are
\* compared in lower case, in the order of the list (none when nothing
\* matches).
C19_CompletionSet ==
    (cmd = "filter_placeholders" /\ pc = "ret") =>
        LET Low(b) == IF b \in 65 .. 90 THEN b + 32 ELSE b
            names == args.names
            partial == args.partial
            keep == {i \in 1 .. Len(names) :
                        /\ Len(partial) <= Len(names[i])
                        /\ \A j \in 1 .. Len(partial) : Low(names[i][j]) = Low(partial[j])}
        IN  /\ Len(ret) = Cardinality(keep)
            /\ \A i \in keep : ret[Cardinality({j \in keep : j <= i})] = names[i]

\* "@T" against @this, @buffer, @path, @selection gives @this alone.
C19_Witness ==
    /\ cmd = "filter_placeholders" /\ pc = "ret"
    /\ args.partial = <<AT, 84>>
    /\ args.names = <<AtThis, AtBuffer, AtPath, AtSelection>>
    /\ ret = <<AtThis>>

\* C20 as stated: for a context with no file, Context::expand leaves every
\* @this, @buffer and @selection as it is and returns the rest of the prompt
\* unchanged, i.e. it returns the prompt.
C20_NoFileReturnsPrompt ==
    (cmd = "expand" /\ pc = "ret" /\ ~args.ctx.file.some) => ret = args.prompt

\* C20: for a context with no file, Context::expand leaves every @this,
\* @buffer and @selection as it is; the result differs from the prompt only
\* in that each @diff is replaced by the git diff when there is one.
C20_NoFileKeepsPlaceholders ==
    (cmd = "expand" /\ pc = "ret" /\ ~args.ctx.file.some) =>
        ret = IF args.diff.some THEN replace(args.prompt, AtDiff, args.diff.value)
              ELSE args.prompt

\* No file but a selection text and a git diff: "@selection@diff" comes back
\* as "@selection+x".
C20_Witness ==
    /\ cmd = "expand" /\ pc = "ret"
    /\ ~args.ctx.file.some /\ args.ctx.selection.some
    /\ args.prompt = AtSelection \o AtDiff
    /\ args.diff = Some(<<43, 120>>)
    /\ ret = AtSelection \o <<43, 120>>

\* C21: the outer program posts a prompt only when the dialog returned Submit,
\* and only after the dialog has returned and the terminal has been released
\* (raw mode, alternate screen and mouse capture off, the App dropped); a
\* Cancel result, an error or a panic posts nothing.
C21_PostOnlyAfterRelease ==
    [][/\ posted' # posted =>
            /\ result.kind = "Submit" /\ result' = result
            /\ pc = "dropped"
            /\ ~raw_mode /\ ~alt_screen /\ ~mouse_capture /\ ~app_alive
            /\ posted' = Append(posted, result.value)
       /\ (raw_mode' \/ alt_screen' \/ mouse_capture' \/ result'.kind # "Submit")
            => posted' = <<>>]_vars

\* The input dialog submitted "t": the prompt has been posted once, after the
\* terminal was released.
C21_Witness ==
    /\ cmd = "ask" /\ pc = "exit_ok"
    /\ result = Submit(<<116>>)
    /\ posted = <<<<116>>>>
    /\ ~raw_mode /\ ~alt_screen /\ ~mouse_capture
    /\ \E i \in 1 .. Len(tty_log) : tty_log[i] = "alt_off"

\* C22: when terminal acquisition fails at any step, the error is returned and
\* every mode change of the earlier steps is rolled back: the terminal is in
\* the mode it had before (raw mode, alternate screen and mouse capture off).
C22_FailedAcquireRolledBack ==
    pc = "new_failed" =>
        /\ result = Err
        /\ ~raw_mode /\ ~alt_screen /\ ~mouse_capture

\* C23: a failed terminal operation in a dialog loop (a failed poll, a failed
\* read, a failed frame write) is fatal: the dialog stops looping and returns
\* the error, and the terminal is released before the error reaches the outer
\* program.
C23_IoFailureIsFatal ==
    /\ io_failed # "none" => (pc \in {"error", "exit_err"} /\ result = Err)
    /\ pc = "exit_err" => (~raw_mode /\ ~alt_screen /\ ~mouse_capture)

\* C24: in the input dialog, with focus SendButton or CancelButton (1, 2) Left
\* and Right move focus only between the two buttons, never to Input (0); with
\* focus Input no arrow key changes focus.
C24_ArrowsAndFocus ==
    [][(cmd = "ask" /\ pc = "key" /\ pc' = "render")
       => /\ (focus \in {1, 2} /\ key'.code \in {"Left", "Right"}) => focus' \in {1, 2}
          /\ (focus = 0 /\ key'.code \in {"Left", "Right", "Up", "Down"}) => focus' = 0]_vars

\* C25: while the autocomplete popup is active, Down and Control+N move the
\* highlight to the next completion and Up and Control+P to the previous one,
\* cycling around the ends of the list; buffer, cursor, focus and scroll stay
\* as they are, the popup stays active and the dialog keeps running.
C25_PopupNavigation ==
    [][(cmd = "ask" /\ pc = "key" /\ pc' # "key" /\ autocomplete_active)
       => LET k == key'
              n == Len(current_completions)
              next == k.code = "Down" \/ k = Key("Char", 110, {"CONTROL"})
              prev == k.code = "Up" \/ k = Key("Char", 112, {"CONTROL"})
          IN  (next \/ prev) =>
                /\ n > 0
                /\ autocomplete_selected' =
                     IF next
                     THEN (IF autocomplete_selected = n - 1 THEN 0
                           ELSE autocomplete_selected + 1)
                     ELSE (IF autocomplete_selected = 0 THEN n - 1
                           ELSE autocomplete_selected - 1)
                /\ UNCHANGED <<input, cursor_pos, focus, scroll_offset>>
                /\ autocomplete_active'
                /\ pc' = "render" /\ result' = result]_vars

\* With "@" typed against four names, Up has moved the highlight from the
\* first completion around to the last.
C25_Witness ==
    /\ cmd = "ask" /\ pc = "render"
    /\ key = Key("Up", 0, {})
    /\ input = <<AT>> /\ cursor_pos = 1
    /\ autocomplete_active /\ Len(current_completions) = 4
    /\ autocomplete_selected = 3

\* C26: with focus Input, Backspace removes exactly the one character before
\* the cursor and puts the cursor where that character started; Delete
\* removes exactly the one character at the cursor and leaves the cursor in
\* place; Backspace at offset 0 and Delete at the end change nothing.
C26_BackspaceAndDelete ==
    [][(/\ cmd = "ask" /\ pc = "key" /\ focus = 0
        /\ key'.code \in {"Backspace", "Delete"})
       => LET bounds == {b \in 0 .. Len(input) : is_char_boundary(input, b)}
              before == CHOOSE b \in bounds :
                            /\ b < cursor_pos
                            /\ \A c \in bounds : c < cursor_pos => c <= b
              after == CHOOSE b \in bounds :
                            /\ b > cursor_pos
                            /\ \A c \in bounds : c > cursor_pos => c >= b
          IN  /\ pc' = "render"
              /\ IF key'.code = "Backspace"
                 THEN IF cursor_pos = 0
                      THEN input' = input /\ cursor_pos' = 0
                      ELSE /\ input' = Slice(input, 0, before)
                                           \o Slice(input, cursor_pos, Len(input))
                           /\ cursor_pos' = before
                 ELSE /\ cursor_pos' = cursor_pos
                      /\ input' = IF cursor_pos = Len(input) THEN input
                                  ELSE Slice(input, 0, cursor_pos)
                                           \o Slice(input, after, Len(input))]_vars

\* C27: while focus is SendButton or CancelButton (1, 2), no key event changes
\* the buffer, the cursor position or the scroll offset, and the autocomplete
\* popup is inactive, both when a frame is drawn and when a key is read.
C27_ButtonsFreezeEditor ==
    [][(cmd = "ask" /\ pc \in {"render", "key"} /\ focus \in {1, 2})
       => /\ ~autocomplete_active
          /\ (pc = "key" /\ pc' \in {"render", "returned"})
                => UNCHANGED <<input, cursor_pos, scroll_offset>>]_vars

\* C28: parse_key follows the table: 0x0D and 0x0A give Enter, 0x7F and 0x08
\* Backspace, 0x09 Tab, every other byte c of 0x01..0x1A Control + the letter
\* c + 0x60, 0x20..0x7E that character without modifier, ESC [ A/B/C/D
\* Up/Down/Right/Left, ESC [ H and ESC [ F Home and End, ESC [ 3 ~ Delete,
\* ESC [ Z Shift+Tab.
C28_DecodingTable ==
    (cmd = "parse_key" /\ pc = "ret") =>
        LET b == args.bytes
            c == b[1]
        IN  /\ (Len(b) = 1 /\ c \in {13, 10}) => ret = Key("Enter", 0, {})
            /\ (Len(b) = 1 /\ c \in {127, 8}) => ret = Key("Backspace", 0, {})
            /\ (Len(b) = 1 /\ c = 9) => ret = Key("Tab", 0, {})
            /\ (Len(b) = 1 /\ c \in (1 .. 26) \ {13, 10, 8, 9})
                    => ret = Key("Char", c + 96, {"CONTROL"})
            /\ (Len(b) = 1 /\ c \in 32 .. 126) => ret = Key("Char", c, {})
            /\ b = <<27, 91, 65>> => ret = Key("Up", 0, {})
            /\ b = <<27, 91, 66>> => ret = Key("Down", 0, {})
            /\ b = <<27, 91, 67>> => ret = Key("Right", 0, {})
            /\ b = <<27, 91, 68>> => ret = Key("Left", 0, {})
            /\ b = <<27, 91, 72>> => ret = Key("Home", 0, {})
            /\ b = <<27, 91, 70>> => ret = Key("End", 0, {})
            /\ b = <<27, 91, 51, 126>> => ret = Key("Delete", 0, {})
            /\ b = <<27, 91, 90>> => ret = Key("BackTab", 0, {"SHIFT"})

\* ESC [ 3 ~ has been decoded to Delete.
C28_Witness ==
    /\ cmd = "parse_key" /\ pc = "ret"
    /\ args.bytes = <<27, 91, 51, 126>>
    /\ ret = Key("Delete", 0, {})

\* C29: for every printable byte b of 0x20..0x7E other than '[' (which starts
\* the CSI sequences), the two bytes ESC b decode to the one key event
\* Alt + character b: by parse_key, and by read_key when its read after the
\* ESC returns the byte.
C29_AltCharacter ==
    \A b \in (32 .. 126) \ {91} :
        /\ (cmd = "parse_key" /\ pc = "ret" /\ args.bytes = <<27, b>>)
                => ret = Key("Char", b, {"ALT"})
        /\ (cmd = "read_key" /\ pc = "ret" /\ args.bytes = <<27, b>>
            /\ Len(ret.events) = 1)
                => ret.events = <<Key("Char", b, {"ALT"})>>

\* read_key has turned ESC t into the single event Alt+t.
C29_Witness ==
    /\ cmd = "read_key" /\ pc = "ret"
    /\ args.bytes = <<27, 116>>
    /\ ret = [pending |-> <<>>, events |-> <<Key("Char", 116, {"ALT"})>>]

\* C30: when the bytes of a valid multi-byte UTF-8 character (2 to 4 bytes)
\* arrive, the key reader produces exactly one key event, the character at
\* that code point without modifier.
C30_MultiByteCharacter ==
    (/\ cmd = "read_key" /\ pc = "ret"
     /\ Utf8Width(args.bytes[1]) > 1 /\ Utf8ValidFrom(args.bytes, 1)
     /\ Utf8Width(args.bytes[1]) = Len(args.bytes))
        => ret.events = <<Key("Char", FirstCodePoint(args.bytes), {})>>

\* The bytes after ESC [ that parse_key has an arm for.
CsiTable == {<<65>>, <<66>>, <<67>>, <<68>>, <<72>>, <<70>>, <<51, 126>>, <<90>>}

\* An ESC-prefixed sequence with no entry in the decoding table.
UnknownEscape(bytes) ==
    /\ Len(bytes) >= 2 /\ bytes[1] = ESC
    /\ ~(Len(bytes) = 2 /\ bytes[2] >= 32 /\ bytes[2] < 127 /\ bytes[2] # 91)
    /\ ~(bytes[2] = 91 /\ SubSeq(bytes, 3, Len(bytes)) \in CsiTable)

\* Bytes outside ASCII that are not well-formed UTF-8.
Malformed(bytes) ==
    /\ \A i \in 1 .. Len(bytes) : bytes[i] >= 128
    /\ ~Utf8ValidFrom(bytes, 1)

\* C31: undecodable input gives Escape or no key, never an error: a lone ESC is
\* Escape, an ESC-prefixed sequence outside the table (handed to parse_key, or
\* taken by read_key in one read) is Escape, and bytes that are neither in the
\* table nor UTF-8 give no key event at all, one None per byte read.
C31_UndecodableInput ==
    /\ (cmd = "parse_key" /\ pc = "ret" /\ UnknownEscape(args.bytes))
            => ret = Key("Esc", 0, {})
    /\ (cmd = "parse_key" /\ pc = "ret" /\ Malformed(args.bytes))
            => ret = NoKey
    /\ (cmd = "read_key" /\ pc = "ret" /\ args.bytes = <<ESC>>)
            => ret.events = <<Key("Esc", 0, {})>>
    /\ (cmd = "read_key" /\ pc = "ret" /\ UnknownEscape(args.bytes)
        /\ Len(ret.events) = 1)
            => ret.events = <<Key("Esc", 0, {})>>
    /\ (cmd = "read_key" /\ pc = "ret" /\ Malformed(args.bytes))
            => /\ Len(ret.events) = Len(args.bytes)
               /\ \A i \in 1 .. Len(ret.events) : ret.events[i] = NoKey
    /\ (cmd = "read_key" /\ pc \in {"reading", "ret"})
            => \A i \in 1 .. Len(ret.events) :
                   ret.events[i] = NoKey \/ ret.events[i].code \in SpecialCodes \cup {"Char"}

C31_Witness ==
    /\ cmd = "read_key" /\ pc = "ret"
    /\ \/ args.bytes = <<ESC, 91, 77, 32, 33, 33>> /\ ret.events = <<Key("Esc", 0, {})>>
       \/ args.bytes = <<169, 195>> /\ ret.events = <<NoKey, NoKey>>

\* The mode change `first` was made before position i of the log.
Earlier(first, i) == \E j \in 1 .. i - 1 : tty_log[j] = first

\* C32: the terminal mode changes are made in the order alternate screen on,
\* raw mode on, mouse reporting on at entry, and mouse reporting off,
\* alternate screen off, previous mode restored, cursor shown at exit.
C32_ModeChangeOrder ==
    \A i \in 1 .. Len(tty_log) :
        /\ tty_log[i] = "raw_on" => Earlier("alt_on", i)
        /\ tty_log[i] = "mouse_on" => Earlier("raw_on", i)
        /\ tty_log[i] = "alt_off" => Earlier("mouse_off", i)
        /\ tty_log[i] = "raw_off" => Earlier("alt_off", i)
        /\ tty_log[i] = "show_cursor" => Earlier("raw_off", i)

\* The state of a dialog that the user edits or navigates.
Edited == <<input, cursor_pos, focus, filter>>

\* C33: in both dialog loops a key is handled in one step taken right after a
\* frame, and the next key is not handled before another frame is drawn; the
\* buffer, cursor, focus and filter change only in the step that handles a
\* key, never at a timed-out read or while drawing; the selection changes
\* only there or at the loop head that follows a key which narrowed the
\* filter (the clamp made before the frame is drawn), never after a timeout.
C33_OneKeyOneStepOneFrame ==
    [][(pc' \in {"render", "key"} /\ pc \in {"render", "key"}) =>
         /\ key' # NoKey => (pc = "key" /\ key = NoKey /\ drawn /\ pc' = "render")
         /\ pc' = "key" => (pc = "render" /\ drawn' /\ key' = NoKey)
         /\ Edited' # Edited => key' # NoKey
         /\ selected' # selected =>
                \/ key' # NoKey
                \/ /\ pc = "render"
                   /\ key.code = "Char" /\ ~IsCtrlOrAlt(key) /\ key.ch \notin {106, 107}
                   /\ selected' = SatSub(Len(filtered), 1)]_vars

\* A filter key has left the selection past the end of the filtered list: the
\* loop head is about to clamp it.
C33_Witness ==
    /\ cmd = "select" /\ pc = "render"
    /\ key.code = "Char" /\ filter # <<>>
    /\ selected >= Len(filtered) /\ selected > 0

\* C34: key-read timeouts have no semantic effect.  Every handler is a function
\* of the dialog state and the key, so two runs fed the same keys agree at
\* every key exactly when an iteration without a key changes nothing: neither
\* the read that times out nor the frame and loop-head updates that follow
\* it change the buffer, cursor, focus, scroll, autocomplete state, filter,
\* selection or result.
C34_TimeoutsChangeNothing ==
    [][(/\ pc \in {"render", "key"} /\ pc' \in {"render", "key"}
        /\ key' = NoKey
        /\ pc = "key" \/ (key = NoKey /\ polled))
       => UNCHANGED <<askVars, selVars, result>>]_vars

\* A frame about to be drawn after a timed-out read, with the popup open on
\* its second entry.
C34_Witness ==
    /\ cmd = "ask" /\ pc = "render"
    /\ key = NoKey /\ polled
    /\ autocomplete_active /\ autocomplete_selected = 1

\* C35: for every terminal size both dialogs compute a dialog rectangle that
\* lies inside the terminal area, with no underflow of the u16 arithmetic; in
\* the selection dialog the height is at most terminal_height - 4 and the
\* width at most min(70, terminal_width).
C35_DialogInsideTerminal ==
    (cmd = "dialog_area" /\ pc = "ret") =>
        /\ ~ret.panic
        /\ ret.x + ret.width <= args.area.width
        /\ ret.y + ret.height <= args.area.height
        /\ args.dialog = "select" =>
               /\ ret.height <= args.area.height - 4
               /\ ret.width <= Min(70, args.area.width)

\* C36: whenever the popup is active when a key is about to be handled, focus
\* is Input, the completion list is non-empty and the highlighted index is a
\* valid index into it; and whenever the popup goes from inactive to active
\* the highlighted index is 0.
C36_PopupIndexValid ==
    [][/\ (cmd = "ask" /\ pc' = "key" /\ autocomplete_active') =>
            /\ focus' = 0
            /\ current_completions' # <<>>
            /\ autocomplete_selected' < Len(current_completions')
       /\ (~autocomplete_active /\ autocomplete_active') => autocomplete_selected' = 0]_vars

\* The popup shows all four placeholders with the last one highlighted.
C36_Witness ==
    /\ cmd = "ask" /\ pc = "key" /\ autocomplete_active
    /\ Len(current_completions) = 4
    /\ autocomplete_selected = 3

\* C37: with the popup active, Escape dismisses it without changing buffer,
\* cursor or focus and without ending the dialog, and the popup is still
\* inactive when the next key is read (nothing having changed the buffer or
\* the cursor), so that a second Escape cancels the dialog.
C37_EscapeDismissesPopup ==
    [][/\ (cmd = "ask" /\ pc = "key" /\ autocomplete_active /\ key'.code = "Esc") =>
            /\ UNCHANGED <<input, cursor_pos, focus>>
            /\ pc' = "render"
            /\ ~autocomplete_active'
       /\ (cmd = "ask" /\ pc = "render" /\ key.code = "Esc" /\ pc' = "key") =>
            ~autocomplete_active']_vars

\* The popup as the frame of this iteration draws it (app.rs 774-784): the
\* draw closure runs before the autocomplete update and sees the flag and the
\* index the previous iteration left.
PopupDrawn == autocomplete_active /\ current_completions # <<>>

\* C38: whenever the popup can intercept the key read after a frame, that
\* frame displayed the popup with the completion list and the highlighted
\* index the key acts on; no key is intercepted by a popup that was not drawn.
C38_InterceptingPopupWasDrawn ==
    [][(cmd = "ask" /\ pc = "render" /\ pc' = "key" /\ autocomplete_active') =>
            /\ PopupDrawn
            /\ current_completions' = current_completions
            /\ autocomplete_selected' = autocomplete_selected]_vars

\* run_select: the rows of items_area, inside the borders of the dialog and
\* below the filter line, for a terminal of AreaWidth x AreaHeight.
ItemRows ==
    LET dialog == select_dialog_area([width |-> AreaWidth, height |-> AreaHeight],
                                     Len(items), TRUE)
    IN  SatSub(SatSub(dialog.height, 2), 4)

\* C39: in the selection dialog the selected item, the one Enter submits, is
\* among the rows drawn in the item region of the frame on screen.
C39_SelectedItemIsDrawn ==
    (cmd = "select" /\ pc = "key" /\ filtered # <<>>) => selected < ItemRows

\* C40: key decoding does not depend on how the bytes are batched into reads:
\* a byte stream made of two table entries back to back is decoded into the
\* two corresponding key events, in order, and no byte of the second
\* keystroke is consumed or discarded while the first is decoded.
C40_DecodingIgnoresBatching ==
    \A p \in EntryPairs :
        (cmd = "read_key" /\ pc = "ret" /\ args.bytes = p[1] \o p[2])
            => ret.events = <<parse_key(p[1]), parse_key(p[2])>>

====
